---- MODULE Spec2Model ----
(***************************************************************************)
(* A model of the maple-engine renderer (src/engine/renderer/renderer.cpp, *)
(* vk_utils.h) and of the loop that drives it (src/engine/core/engine.cpp).*)
(*                                                                         *)
(* Spec        the frame loop: Engine::Impl::Run polling events and        *)
(*             calling Renderer::Impl::DrawFrame, statement by statement,  *)
(*             against a Vulkan backend whose calls return any result the  *)
(*             API allows, with the GPU completing work concurrently.      *)
(* SpecSelect  Renderer::Impl::selectPhysicalDevice applied to every list  *)
(*             of device records within the bounds, and the                *)
(*             createLogicalDevice that follows it in Init.                *)
(* SpecInit    Renderer::Impl::Init, call by call, for one device whose    *)
(*             formats, present modes, surface capabilities and queue      *)
(*             families vary, and the recreateSwapChain calls that follow  *)
(*             window resizes: the order of the calls and the values       *)
(*             createSwapChain computes.                                   *)
(* SpecLive    Spec with the fairness of a host thread that keeps running  *)
(*             and a GPU that finishes the work it is given.               *)
(***************************************************************************)
EXTENDS Integers, Sequences, FiniteSets, TLC

(***************************************************************************)
(* Program constants and model bounds                                      *)
(***************************************************************************)
MAX_FRAMES_IN_FLIGHT == 2

\* ticks of the Run loop the model follows
MaxTicks == 4
\* images the driver gives every swapchain
NumImages == 2
\* framebuffer-size callbacks one glfwPollEvents may deliver
MaxNotify == 2
\* physical devices the instance enumerates
MaxDevices == 2
\* surface formats a device lists
MaxFormats == 3
\* queue families a device has
MaxFamilies == 2
\* the largest minimum image count a surface reports
MaxCounts == 3

Slots == 0 .. (MAX_FRAMES_IN_FLIGHT - 1)

VARIABLES
  pc,                     \* position of the one host thread
  caller,                 \* who called cleanupSwapChain: "recreateSwapChain" or "Destroy"
  mCurrentFrame,
  framebufferResized,
  imageIdx,               \* DrawFrame's local: <<>> until written, then <<index>>
  result,                 \* DrawFrame's local VkResult of vkQueuePresentKHR
  mInFlightFences,        \* slot -> signaled
  mImageAvailableSems,    \* slot -> a signal is pending
  mRenderFinishedSems,    \* slot -> a signal is pending
  mSwapChain,             \* handle
  mSwapChainImageViews,   \* sequence of handles
  mSwapChainFramebuffers, \* sequence of handles
  mRenderPass, mPipelineLayout, mPipeline,
  live,                   \* handles created and not destroyed; handle -> kind
  nextHandle,
  gpuWork,                \* slot -> submissions whose fence has not signaled yet
  presentQueue,           \* slot -> queued presents still waiting on render-finished
  ticks,                  \* history: DrawFrame calls begun
  ticksDone,              \* history: DrawFrame calls that returned
  calls,                  \* history: the backend calls of the current tick
  lastPresent,            \* history: result of the latest vkQueuePresentKHR
  rebuilt,                \* history: objects destroyed/created since that present
  backendOk,              \* history: every backend call so far returned VK_SUCCESS
  notifyCount,            \* history: resize callbacks delivered so far
  notifyTick,             \* history: the tick the first of them preceded (0: none)
  recreateCount,          \* history: calls of recreateSwapChain so far
  recreateTick,           \* history: the tick of the first of them (0: none)
  latchAtTickStart,       \* history: framebufferResized when the current tick began
  gpuTrace,               \* history: which tick gave each signal and each piece of queued work
  mPhysicalDevices,       \* device records (SpecSelect, SpecInit)
  mSelectedDeviceIdx,     \* 0-based, as in the source
  selPc,                  \* position of the host thread in Init and after it
  mQueueIndices,          \* [Graphics, Present]: each <<>> until written, then <<index>>
  mDevice,                \* VK_NULL_HANDLE or the logical device
  windowSize,             \* what glfwGetFramebufferSize reports now: [width, height]
  mPresentModeIdx,        \* <<>> until written, then <<index>>, 0-based
  mSurfaceFormatIdx,      \* <<>> until written, then <<index>>, 0-based
  mExtent,                \* <<>> until written, then [width, height]
  createInfo,             \* <<>>, or the VkSwapchainCreateInfoKHR of the latest swapchain
  framebufferInfo,        \* <<>>, or the [width, height] of the latest framebuffers
  fatalIn,                \* history: the function that called MAPLE_FATAL
  swapChainCaller,        \* history: who called createSwapChain last
  sizeAtCreate,           \* history: windowSize at the latest and the previous createSwapChain
  initCalls,              \* history: the functions Init has called, in order
  swapchainImages,        \* backend: [gen, count] of the images of the latest swapchain
  imageViewInfo,          \* for each element of mSwapChainImageViews, the image it views
  framebufferAttachments  \* for each element of mSwapChainFramebuffers, the view it wraps

frameVars == <<pc, caller, mCurrentFrame, framebufferResized, imageIdx, result,
               mInFlightFences, mImageAvailableSems, mRenderFinishedSems,
               mSwapChain, mSwapChainImageViews, mSwapChainFramebuffers,
               mRenderPass, mPipelineLayout, mPipeline, live, nextHandle,
               gpuWork, presentQueue, ticks, ticksDone, calls, lastPresent,
               rebuilt, backendOk, notifyCount, notifyTick, recreateCount,
               recreateTick, latchAtTickStart, gpuTrace>>

swapVars == <<mQueueIndices, mDevice, windowSize, mPresentModeIdx,
              mSurfaceFormatIdx, mExtent, createInfo, framebufferInfo, fatalIn,
              swapChainCaller, sizeAtCreate, initCalls, swapchainImages,
              imageViewInfo, framebufferAttachments>>

\* what SpecInit records of the swapchain images and of the objects made for them
imageVars == <<swapchainImages, imageViewInfo, framebufferAttachments>>

selectVars == <<mPhysicalDevices, mSelectedDeviceIdx, selPc, swapVars>>

vars == <<frameVars, selectVars>>

(***************************************************************************)
(* Backend results                                                         *)
(***************************************************************************)
VK_SUCCESS == "VK_SUCCESS"
VK_SUBOPTIMAL_KHR == "VK_SUBOPTIMAL_KHR"
VK_ERROR_OUT_OF_DATE_KHR == "VK_ERROR_OUT_OF_DATE_KHR"
VK_ERROR_DEVICE_LOST == "VK_ERROR_DEVICE_LOST"

\* vkAcquireNextImageKHR and vkQueuePresentKHR: two success codes, the
\* stale-swapchain error and one representative of the remaining errors
SwapchainResults == {VK_SUCCESS, VK_SUBOPTIMAL_KHR, VK_ERROR_OUT_OF_DATE_KHR, VK_ERROR_DEVICE_LOST}
\* every other call that returns a VkResult
PlainResults == {VK_SUCCESS, VK_ERROR_DEVICE_LOST}

Range(s) == {s[i] : i \in DOMAIN s}

Kinds == {"swapchain", "imageView", "framebuffer", "renderPass", "pipelineLayout", "pipeline"}

NoneRebuilt == [destroyed |-> [k \in Kinds |-> 0], created |-> [k \in Kinds |-> 0]]

Call(op, res) == [op |-> op, res |-> res]

Called(op) == \E i \in DOMAIN calls : calls[i].op = op

CalledWith(op, res) == \E i \in DOMAIN calls : calls[i] = Call(op, res)

CountCalls(op) == Cardinality({i \in DOMAIN calls : calls[i].op = op})

(***************************************************************************)
(* Object lifetime                                                         *)
(***************************************************************************)
\* n fresh handles of one kind, in creation order
Fresh(n) == [i \in 1 .. n |-> nextHandle + i - 1]

CreateHandles(hs, kind) ==
  [h \in (DOMAIN live) \cup hs |-> IF h \in hs THEN kind ELSE live[h]]

DestroyHandles(hs) == [h \in (DOMAIN live) \ hs |-> live[h]]

NoteCreated(kind, n) == [rebuilt EXCEPT !.created[kind] = @ + n]

GpuIdle == \A s \in Slots : gpuWork[s] = 0 /\ presentQueue[s] = 0

(***************************************************************************)
(* Init: the state Renderer::Impl::Init leaves behind                      *)
(***************************************************************************)
\* the handles createCommandPool, createCommandBuffers and createSyncObjects
\* store in mCommandPool, mCommandBuffers, mImageAvailableSems,
\* mRenderFinishedSems and mInFlightFences; nothing assigns these members again
FrameObjects ==
  LET base == 2 * NumImages + 5 IN
    [commandPool    |-> base,
     commandBuffers |-> [s \in Slots |-> base + 1 + s],
     imageAvailable |-> [s \in Slots |-> base + 1 + MAX_FRAMES_IN_FLIGHT + 3 * s],
     renderFinished |-> [s \in Slots |-> base + 2 + MAX_FRAMES_IN_FLIGHT + 3 * s],
     inFlight       |-> [s \in Slots |-> base + 3 + MAX_FRAMES_IN_FLIGHT + 3 * s]]

\* the kind of each of these handles
FrameObjectKinds ==
  [h \in {FrameObjects.commandPool} |-> "commandPool"]
    @@ [h \in Range(FrameObjects.commandBuffers) |-> "commandBuffer"]
    @@ [h \in Range(FrameObjects.imageAvailable) \cup Range(FrameObjects.renderFinished)
          |-> "semaphore"]
    @@ [h \in Range(FrameObjects.inFlight) |-> "fence"]

InitObjects ==
  /\ mSwapChain = 1
  /\ mSwapChainImageViews = [i \in 1 .. NumImages |-> 1 + i]
  /\ mRenderPass = NumImages + 2
  /\ mPipelineLayout = NumImages + 3
  /\ mPipeline = NumImages + 4
  /\ mSwapChainFramebuffers = [i \in 1 .. NumImages |-> NumImages + 4 + i]
  /\ nextHandle = 2 * NumImages + 6 + 4 * MAX_FRAMES_IN_FLIGHT
  /\ live = [h \in 1 .. (2 * NumImages + 4) |->
               IF h = 1 THEN "swapchain"
               ELSE IF h <= NumImages + 1 THEN "imageView"
               ELSE IF h = NumImages + 2 THEN "renderPass"
               ELSE IF h = NumImages + 3 THEN "pipelineLayout"
               ELSE IF h = NumImages + 4 THEN "pipeline"
               ELSE "framebuffer"]
            @@ FrameObjectKinds

\* nothing signaled, queued, started or shown yet. acquired and finished: the
\* ticks whose acquisition has signaled image-available and whose submission
\* has signaled render-finished; workOf and presentsOf: the ticks of the slot's
\* submission and presents still queued; rendered and presented: the tick of
\* the slot's latest submission that ran and of its latest present that began,
\* and whether the signal of that same tick had been given by then
NoGpuTrace ==
  [acquired    |-> {},
   finished    |-> {},
   workOf      |-> [s \in Slots |-> 0],
   presentsOf  |-> [s \in Slots |-> <<>>],
   rendered    |-> [s \in Slots |-> <<>>],
   presented   |-> [s \in Slots |-> <<>>]]

\* fences created without VK_FENCE_CREATE_SIGNALED_BIT
InitSyncUnsignaled ==
  /\ mInFlightFences = [s \in Slots |-> FALSE]
  /\ mImageAvailableSems = [s \in Slots |-> FALSE]
  /\ mRenderFinishedSems = [s \in Slots |-> FALSE]

\* createSyncObjects: binary semaphores start unsignaled, the fences signaled
InitSync ==
  /\ mInFlightFences = [s \in Slots |-> TRUE]
  /\ mImageAvailableSems = [s \in Slots |-> FALSE]
  /\ mRenderFinishedSems = [s \in Slots |-> FALSE]

InitFrame ==
  /\ pc = "loop"
  /\ caller = "none"
  /\ mCurrentFrame = 0
  /\ framebufferResized = FALSE
  /\ imageIdx = <<>>
  /\ result = "none"
  /\ InitSync
  /\ InitObjects
  /\ gpuWork = [s \in Slots |-> 0]
  /\ presentQueue = [s \in Slots |-> 0]
  /\ ticks = 0
  /\ ticksDone = 0
  /\ calls = <<>>
  /\ lastPresent = "none"
  /\ rebuilt = NoneRebuilt
  /\ backendOk = TRUE
  /\ notifyCount = 0
  /\ notifyTick = 0
  /\ recreateCount = 0
  /\ recreateTick = 0
  /\ latchAtTickStart = FALSE
  /\ gpuTrace = NoGpuTrace

VK_NULL_HANDLE == "VK_NULL_HANDLE"

\* the members Init has not written yet
InitSwap ==
  /\ mQueueIndices = [Graphics |-> <<>>, Present |-> <<>>]
  /\ mDevice = VK_NULL_HANDLE
  /\ mPresentModeIdx = <<>>
  /\ mSurfaceFormatIdx = <<>>
  /\ mExtent = <<>>
  /\ createInfo = <<>>
  /\ framebufferInfo = <<>>
  /\ fatalIn = "none"
  /\ swapChainCaller = "none"
  /\ sizeAtCreate = [previous |-> <<>>, latest |-> <<>>]
  /\ initCalls = <<>>
  /\ swapchainImages = [gen |-> 0, count |-> 0]
  /\ imageViewInfo = <<>>
  /\ framebufferAttachments = <<>>

InitSelectIdle ==
  /\ mPhysicalDevices = <<>>
  /\ mSelectedDeviceIdx = 0
  /\ selPc = "off"
  /\ windowSize = <<>>
  /\ InitSwap

Init == InitFrame /\ InitSelectIdle

(***************************************************************************)
(* Engine::Impl::Run: poll events, then draw, until the window closes      *)
(***************************************************************************)
Dead == {"terminated", "crashed", "destroyed"}

\* MAPLE_FATAL: log, then std::terminate()
Fatal == pc' = "terminated"

\* a notification that clears the latch
SetFrameBufferResizedClears == FALSE

\* Renderer::Impl::SetFrameBufferResized, the value it leaves in the latch
SetFrameBufferResized == TRUE

\* a count that only tells none, one and several apart
Several(n) == IF n > 1 THEN 2 ELSE n

\* glfwPollEvents() runs the framebuffer-size callback n times
PollEvents ==
  /\ pc = "loop"
  /\ ticks < MaxTicks
  /\ \E n \in 0 .. MaxNotify :
       /\ framebufferResized' = IF n > 0 THEN SetFrameBufferResized ELSE framebufferResized
       /\ notifyCount' = Several(notifyCount + n)
       /\ notifyTick' = IF n > 0 /\ notifyCount = 0 THEN ticks + 1 ELSE notifyTick
  /\ pc' = "DrawFrame"
  /\ UNCHANGED <<caller, mCurrentFrame, imageIdx, result, mInFlightFences,
                 mImageAvailableSems, mRenderFinishedSems, mSwapChain,
                 mSwapChainImageViews, mSwapChainFramebuffers, mRenderPass,
                 mPipelineLayout, mPipeline, live, nextHandle, gpuWork,
                 presentQueue, ticks, ticksDone, calls, lastPresent, rebuilt,
                 backendOk, recreateCount, recreateTick, latchAtTickStart,
                 gpuTrace, selectVars>>

\* glfwWindowShouldClose() is true: Run returns and ~Impl calls Destroy
Close ==
  /\ pc = "loop"
  /\ pc' = "Destroy"
  /\ UNCHANGED <<caller, mCurrentFrame, framebufferResized, imageIdx, result,
                 mInFlightFences, mImageAvailableSems, mRenderFinishedSems,
                 mSwapChain, mSwapChainImageViews, mSwapChainFramebuffers,
                 mRenderPass, mPipelineLayout, mPipeline, live, nextHandle,
                 gpuWork, presentQueue, ticks, ticksDone, calls, lastPresent,
                 rebuilt, backendOk, notifyCount, notifyTick, recreateCount,
                 recreateTick, latchAtTickStart,
                 gpuTrace, selectVars>>

(***************************************************************************)
(* Renderer::Impl::DrawFrame                                               *)
(***************************************************************************)
\* a wait that does not block on an unsignaled fence
FenceWaitReturnsAlways(signaled) == TRUE

\* vkWaitForFences(..., VK_TRUE, UINT64_MAX) returns once the fence is signaled
FenceWaitReturns(signaled) == signaled

\* a test that leaves the resize latch out
NeedsRecreateNoLatch(res, resized) ==
  res = VK_ERROR_OUT_OF_DATE_KHR \/ res = VK_SUBOPTIMAL_KHR

NeedsRecreate(res, resized) ==
  res = VK_ERROR_OUT_OF_DATE_KHR \/ res = VK_SUBOPTIMAL_KHR \/ resized

\* a recreation that forgets to reset the latch
LatchKept(resized) == resized

\* framebufferResized = false, the statement before the call of recreateSwapChain
LatchOnRecreate(resized) == FALSE

\* an increment without the wrap
NextFrameNoWrap(f) == f + 1

NextFrame(f) == (f + 1) % MAX_FRAMES_IN_FLIGHT

\* vkWaitForFences; vkResetFences
DrawFrame_WaitFence ==
  /\ pc = "DrawFrame"
  /\ FenceWaitReturns(mInFlightFences[mCurrentFrame])
  /\ mInFlightFences' = [mInFlightFences EXCEPT ![mCurrentFrame] = FALSE]
  /\ imageIdx' = <<>>
  /\ result' = "none"
  /\ ticks' = ticks + 1
  /\ latchAtTickStart' = framebufferResized
  /\ calls' = <<Call("vkWaitForFences", VK_SUCCESS), Call("vkResetFences", VK_SUCCESS)>>
  /\ pc' = "acquire"
  /\ UNCHANGED <<caller, mCurrentFrame, framebufferResized, mImageAvailableSems,
                 mRenderFinishedSems, mSwapChain, mSwapChainImageViews,
                 mSwapChainFramebuffers, mRenderPass, mPipelineLayout, mPipeline,
                 live, nextHandle, gpuWork, presentQueue, ticksDone, lastPresent,
                 rebuilt, backendOk, notifyCount, notifyTick, recreateCount,
                 recreateTick, gpuTrace, selectVars>>

\* vkAcquireNextImageKHR: its result is not read; only a success code writes
\* imageIdx and gives the semaphore a signal
DrawFrame_Acquire ==
  /\ pc = "acquire"
  /\ \E res \in SwapchainResults :
       /\ calls' = Append(calls, Call("vkAcquireNextImageKHR", res))
       /\ backendOk' = (backendOk /\ res = VK_SUCCESS)
       /\ IF res \in {VK_SUCCESS, VK_SUBOPTIMAL_KHR}
          THEN /\ \E i \in 0 .. (NumImages - 1) : imageIdx' = <<i>>
               /\ mImageAvailableSems' = [mImageAvailableSems EXCEPT ![mCurrentFrame] = TRUE]
               /\ gpuTrace' = [gpuTrace EXCEPT !.acquired = @ \cup {ticks}]
          ELSE UNCHANGED <<imageIdx, mImageAvailableSems, gpuTrace>>
  /\ pc' = "record"
  /\ UNCHANGED <<caller, mCurrentFrame, framebufferResized, result, mInFlightFences,
                 mRenderFinishedSems, mSwapChain, mSwapChainImageViews,
                 mSwapChainFramebuffers, mRenderPass, mPipelineLayout, mPipeline,
                 live, nextHandle, gpuWork, presentQueue, ticks, ticksDone,
                 lastPresent, rebuilt, notifyCount, notifyTick, recreateCount,
                 recreateTick, latchAtTickStart,
                 selectVars>>

\* the values a read of imageIdx can give: the index written, or, of the
\* uninitialized local, any value (NumImages stands for every index past the end)
ImageIdxRead == IF imageIdx = <<>> THEN 0 .. NumImages ELSE {imageIdx[1]}

\* recordCommandBuffer(mCommandBuffers[mCurrentFrame], imageIdx)
DrawFrame_Record ==
  /\ pc = "record"
  /\ \E idx \in ImageIdxRead, res \in PlainResults, survives \in BOOLEAN :
       /\ imageIdx' = <<idx>>
       /\ IF idx >= Len(mSwapChainFramebuffers) /\ ~survives
          THEN \* mSwapChainFramebuffers[imageIdx] read past the end
               /\ pc' = "crashed"
               /\ UNCHANGED <<calls, backendOk>>
          ELSE /\ backendOk' = (backendOk /\ res = VK_SUCCESS)
               /\ IF res = VK_SUCCESS
                  THEN /\ calls' = calls \o <<Call("vkResetCommandBuffer", VK_SUCCESS),
                                              Call("vkBeginCommandBuffer", VK_SUCCESS),
                                              Call("vkCmdBeginRenderPass", VK_SUCCESS),
                                              Call("vkCmdDraw", VK_SUCCESS),
                                              Call("vkEndCommandBuffer", VK_SUCCESS)>>
                       /\ pc' = "submit"
                  ELSE /\ calls' = calls \o <<Call("vkResetCommandBuffer", VK_SUCCESS),
                                              Call("vkBeginCommandBuffer", res)>>
                       /\ Fatal
  /\ UNCHANGED <<caller, mCurrentFrame, framebufferResized, result, mInFlightFences,
                 mImageAvailableSems, mRenderFinishedSems, mSwapChain,
                 mSwapChainImageViews, mSwapChainFramebuffers, mRenderPass,
                 mPipelineLayout, mPipeline, live, nextHandle, gpuWork, presentQueue,
                 ticks, ticksDone, lastPresent, rebuilt, notifyCount, notifyTick,
                 recreateCount, recreateTick, latchAtTickStart,
                 gpuTrace, selectVars>>

\* vkQueueSubmit(..., mInFlightFences[mCurrentFrame])
DrawFrame_Submit ==
  /\ pc = "submit"
  /\ \E res \in PlainResults :
       /\ calls' = Append(calls, Call("vkQueueSubmit", res))
       /\ backendOk' = (backendOk /\ res = VK_SUCCESS)
       /\ IF res = VK_SUCCESS
          THEN /\ gpuWork' = [gpuWork EXCEPT ![mCurrentFrame] = @ + 1]
               /\ gpuTrace' = [gpuTrace EXCEPT !.workOf[mCurrentFrame] = ticks]
               /\ pc' = "present"
          ELSE /\ UNCHANGED <<gpuWork, gpuTrace>>
               /\ Fatal
  /\ UNCHANGED <<caller, mCurrentFrame, framebufferResized, imageIdx, result,
                 mInFlightFences, mImageAvailableSems, mRenderFinishedSems,
                 mSwapChain, mSwapChainImageViews, mSwapChainFramebuffers,
                 mRenderPass, mPipelineLayout, mPipeline, live, nextHandle,
                 presentQueue, ticks, ticksDone, lastPresent, rebuilt,
                 notifyCount, notifyTick, recreateCount, recreateTick, latchAtTickStart,
                 selectVars>>

\* VkResult result = vkQueuePresentKHR(...): the wait on render-finished is
\* queued unless the device is lost
DrawFrame_Present ==
  /\ pc = "present"
  /\ \E res \in SwapchainResults :
       /\ result' = res
       /\ lastPresent' = res
       /\ calls' = Append(calls, Call("vkQueuePresentKHR", res))
       /\ backendOk' = (backendOk /\ res = VK_SUCCESS)
       /\ presentQueue' = IF res = VK_ERROR_DEVICE_LOST THEN presentQueue
                          ELSE [presentQueue EXCEPT ![mCurrentFrame] = @ + 1]
       /\ gpuTrace' = IF res = VK_ERROR_DEVICE_LOST THEN gpuTrace
                      ELSE [gpuTrace EXCEPT !.presentsOf[mCurrentFrame] = Append(@, ticks)]
  /\ rebuilt' = NoneRebuilt
  /\ pc' = "check"
  /\ UNCHANGED <<caller, mCurrentFrame, framebufferResized, imageIdx,
                 mInFlightFences, mImageAvailableSems, mRenderFinishedSems,
                 mSwapChain, mSwapChainImageViews, mSwapChainFramebuffers,
                 mRenderPass, mPipelineLayout, mPipeline, live, nextHandle,
                 gpuWork, ticks, ticksDone, notifyCount, notifyTick,
                 recreateCount, recreateTick, latchAtTickStart,
                 selectVars>>

\* the if / else if after the present call
DrawFrame_Check ==
  /\ pc = "check"
  /\ IF NeedsRecreate(result, framebufferResized)
     THEN /\ framebufferResized' = LatchOnRecreate(framebufferResized)
          /\ recreateCount' = Several(recreateCount + 1)
          /\ recreateTick' = IF recreateCount = 0 THEN ticks ELSE recreateTick
          /\ pc' = "recreateSwapChain"
     ELSE /\ UNCHANGED <<framebufferResized, recreateCount, recreateTick>>
          /\ IF result # VK_SUCCESS THEN Fatal ELSE pc' = "advance"
  /\ UNCHANGED <<caller, mCurrentFrame, imageIdx, result, mInFlightFences,
                 mImageAvailableSems, mRenderFinishedSems, mSwapChain,
                 mSwapChainImageViews, mSwapChainFramebuffers, mRenderPass,
                 mPipelineLayout, mPipeline, live, nextHandle, gpuWork,
                 presentQueue, ticks, ticksDone, calls, lastPresent, rebuilt,
                 backendOk, notifyCount, notifyTick, latchAtTickStart,
                 gpuTrace, selectVars>>

\* mCurrentFrame = (mCurrentFrame + 1) % MAX_FRAMES_IN_FLIGHT, and return to Run
DrawFrame_Advance ==
  /\ pc = "advance"
  /\ mCurrentFrame' = NextFrame(mCurrentFrame)
  /\ ticksDone' = ticksDone + 1
  /\ pc' = "loop"
  /\ UNCHANGED <<caller, framebufferResized, imageIdx, result, mInFlightFences,
                 mImageAvailableSems, mRenderFinishedSems, mSwapChain,
                 mSwapChainImageViews, mSwapChainFramebuffers, mRenderPass,
                 mPipelineLayout, mPipeline, live, nextHandle, gpuWork,
                 presentQueue, ticks, calls, lastPresent, rebuilt, backendOk,
                 notifyCount, notifyTick, recreateCount, recreateTick, latchAtTickStart,
                 gpuTrace, selectVars>>

(***************************************************************************)
(* Renderer::Impl::recreateSwapChain, cleanupSwapChain and the create      *)
(* functions it calls                                                      *)
(***************************************************************************)
\* a wait that returns while work is queued
DeviceWaitIdleReturnsAlways == TRUE

\* vkDeviceWaitIdle returns once every queue has finished its work
DeviceWaitIdleReturns == GpuIdle

\* a cleanup that also destroys the fences of the frame slots
CleanupTargetsAndFences ==
  [framebuffer |-> mSwapChainFramebuffers,
   imageView   |-> mSwapChainImageViews,
   swapchain   |-> <<mSwapChain, FrameObjects.inFlight[0]>>]

\* a cleanup that forgets the image views
CleanupTargetsNoViews ==
  [framebuffer |-> mSwapChainFramebuffers,
   imageView   |-> <<>>,
   swapchain   |-> <<mSwapChain>>]

\* the handles cleanupSwapChain passes to vkDestroyFramebuffer,
\* vkDestroyImageView and vkDestroySwapchainKHR
CleanupTargets ==
  [framebuffer |-> mSwapChainFramebuffers,
   imageView   |-> mSwapChainImageViews,
   swapchain   |-> <<mSwapChain>>]

Recreate_WaitIdle ==
  /\ pc = "recreateSwapChain"
  /\ DeviceWaitIdleReturns
  /\ calls' = Append(calls, Call("vkDeviceWaitIdle", VK_SUCCESS))
  /\ caller' = "recreateSwapChain"
  /\ pc' = "cleanupSwapChain"
  /\ UNCHANGED <<mCurrentFrame, framebufferResized, imageIdx, result,
                 mInFlightFences, mImageAvailableSems, mRenderFinishedSems,
                 mSwapChain, mSwapChainImageViews, mSwapChainFramebuffers,
                 mRenderPass, mPipelineLayout, mPipeline, live, nextHandle,
                 gpuWork, presentQueue, ticks, ticksDone, lastPresent, rebuilt,
                 backendOk, notifyCount, notifyTick, recreateCount, recreateTick,
                 latchAtTickStart,
                 gpuTrace, selectVars>>

CleanupSwapChain ==
  /\ pc = "cleanupSwapChain"
  /\ LET t == CleanupTargets IN
       /\ live' = DestroyHandles(Range(t.framebuffer) \cup Range(t.imageView)
                                   \cup Range(t.swapchain))
       /\ rebuilt' = [rebuilt EXCEPT
                        !.destroyed["framebuffer"] = @ + Len(t.framebuffer),
                        !.destroyed["imageView"] = @ + Len(t.imageView),
                        !.destroyed["swapchain"] = @ + Len(t.swapchain)]
       /\ calls' = calls \o [i \in 1 .. Len(t.framebuffer) |-> Call("vkDestroyFramebuffer", "")]
                         \o [i \in 1 .. Len(t.imageView) |-> Call("vkDestroyImageView", "")]
                         \o [i \in 1 .. Len(t.swapchain) |-> Call("vkDestroySwapchainKHR", "")]
  /\ pc' = IF caller = "Destroy" THEN "destroyRest" ELSE "createSwapChain"
  /\ UNCHANGED <<caller, mCurrentFrame, framebufferResized, imageIdx, result,
                 mInFlightFences, mImageAvailableSems, mRenderFinishedSems,
                 mSwapChain, mSwapChainImageViews, mSwapChainFramebuffers,
                 mRenderPass, mPipelineLayout, mPipeline, nextHandle, gpuWork,
                 presentQueue, ticks, ticksDone, lastPresent, backendOk,
                 notifyCount, notifyTick, recreateCount, recreateTick, latchAtTickStart,
                 gpuTrace, selectVars>>

CreateSwapChain ==
  /\ pc = "createSwapChain"
  /\ \E res \in PlainResults :
       /\ calls' = Append(calls, Call("vkCreateSwapchainKHR", res))
       /\ backendOk' = (backendOk /\ res = VK_SUCCESS)
       /\ IF res = VK_SUCCESS
          THEN /\ mSwapChain' = nextHandle
               /\ live' = CreateHandles({nextHandle}, "swapchain")
               /\ nextHandle' = nextHandle + 1
               /\ rebuilt' = NoteCreated("swapchain", 1)
               /\ pc' = "createImageViews"
          ELSE /\ UNCHANGED <<mSwapChain, live, nextHandle, rebuilt>>
               /\ Fatal
  /\ UNCHANGED <<caller, mCurrentFrame, framebufferResized, imageIdx, result,
                 mInFlightFences, mImageAvailableSems, mRenderFinishedSems,
                 mSwapChainImageViews, mSwapChainFramebuffers, mRenderPass,
                 mPipelineLayout, mPipeline, gpuWork, presentQueue, ticks,
                 ticksDone, lastPresent, notifyCount, notifyTick, recreateCount,
                 recreateTick, latchAtTickStart,
                 gpuTrace, selectVars>>

\* vkGetSwapchainImagesKHR reports NumImages images; one view is created for each
CreateImageViews ==
  /\ pc = "createImageViews"
  /\ \E res \in PlainResults :
       /\ calls' = Append(calls, Call("vkCreateImageView", res))
       /\ backendOk' = (backendOk /\ res = VK_SUCCESS)
       /\ IF res = VK_SUCCESS
          THEN /\ mSwapChainImageViews' = Fresh(NumImages)
               /\ live' = CreateHandles(Range(Fresh(NumImages)), "imageView")
               /\ nextHandle' = nextHandle + NumImages
               /\ rebuilt' = NoteCreated("imageView", NumImages)
               /\ pc' = "createFramebuffers"
          ELSE /\ UNCHANGED <<mSwapChainImageViews, live, nextHandle, rebuilt>>
               /\ Fatal
  /\ UNCHANGED <<caller, mCurrentFrame, framebufferResized, imageIdx, result,
                 mInFlightFences, mImageAvailableSems, mRenderFinishedSems,
                 mSwapChain, mSwapChainFramebuffers, mRenderPass, mPipelineLayout,
                 mPipeline, gpuWork, presentQueue, ticks, ticksDone, lastPresent,
                 notifyCount, notifyTick, recreateCount, recreateTick, latchAtTickStart,
                 gpuTrace, selectVars>>

\* one framebuffer for each element of mSwapChainImageViews
CreateFramebuffers ==
  /\ pc = "createFramebuffers"
  /\ \E res \in PlainResults :
       /\ calls' = Append(calls, Call("vkCreateFramebuffer", res))
       /\ backendOk' = (backendOk /\ res = VK_SUCCESS)
       /\ IF res = VK_SUCCESS
          THEN /\ mSwapChainFramebuffers' = Fresh(Len(mSwapChainImageViews))
               /\ live' = CreateHandles(Range(Fresh(Len(mSwapChainImageViews))), "framebuffer")
               /\ nextHandle' = nextHandle + Len(mSwapChainImageViews)
               /\ rebuilt' = NoteCreated("framebuffer", Len(mSwapChainImageViews))
               /\ pc' = "advance"
          ELSE /\ UNCHANGED <<mSwapChainFramebuffers, live, nextHandle, rebuilt>>
               /\ Fatal
  /\ UNCHANGED <<caller, mCurrentFrame, framebufferResized, imageIdx, result,
                 mInFlightFences, mImageAvailableSems, mRenderFinishedSems,
                 mSwapChain, mSwapChainImageViews, mRenderPass, mPipelineLayout,
                 mPipeline, gpuWork, presentQueue, ticks, ticksDone, lastPresent,
                 notifyCount, notifyTick, recreateCount, recreateTick, latchAtTickStart,
                 gpuTrace, selectVars>>

(***************************************************************************)
(* Renderer::Impl::Destroy                                                 *)
(***************************************************************************)
Destroy_WaitIdle ==
  /\ pc = "Destroy"
  /\ DeviceWaitIdleReturns
  /\ calls' = <<Call("vkDeviceWaitIdle", VK_SUCCESS)>>
  /\ caller' = "Destroy"
  /\ pc' = "cleanupSwapChain"
  /\ UNCHANGED <<mCurrentFrame, framebufferResized, imageIdx, result,
                 mInFlightFences, mImageAvailableSems, mRenderFinishedSems,
                 mSwapChain, mSwapChainImageViews, mSwapChainFramebuffers,
                 mRenderPass, mPipelineLayout, mPipeline, live, nextHandle,
                 gpuWork, presentQueue, ticks, ticksDone, lastPresent, rebuilt,
                 backendOk, notifyCount, notifyTick, recreateCount, recreateTick,
                 latchAtTickStart,
                 gpuTrace, selectVars>>

\* the calls of one pass of the loop over the frame slots
DestroySyncCalls ==
  <<Call("vkDestroySemaphore", ""), Call("vkDestroySemaphore", ""), Call("vkDestroyFence", "")>>

RECURSIVE Repeat(_, _)
Repeat(s, n) == IF n = 0 THEN <<>> ELSE s \o Repeat(s, n - 1)

\* a shutdown that destroys the device before the objects made from it
DestroyCallsDeviceFirst(hasValidationLayers) ==
  <<Call("vkDestroyDevice", "")>>
    \o Repeat(DestroySyncCalls, MAX_FRAMES_IN_FLIGHT)
    \o <<Call("vkDestroyCommandPool", ""), Call("vkDestroyPipeline", ""),
          Call("vkDestroyPipelineLayout", ""), Call("vkDestroyRenderPass", ""),
          Call("vkDestroySurfaceKHR", ""), Call("vkDestroyInstance", "")>>

\* the calls of Destroy after cleanupSwapChain, in the order of its statements;
\* the messenger exists only in a build that has validation layers
DestroyCalls(hasValidationLayers) ==
  Repeat(DestroySyncCalls, MAX_FRAMES_IN_FLIGHT)
    \o <<Call("vkDestroyCommandPool", ""), Call("vkDestroyPipeline", ""),
          Call("vkDestroyPipelineLayout", ""), Call("vkDestroyRenderPass", ""),
          Call("vkDestroyDevice", ""), Call("vkDestroySurfaceKHR", "")>>
    \o (IF hasValidationLayers THEN <<Call("DestroyDebugUtilsMessengerEXT", "")>> ELSE <<>>)
    \o <<Call("vkDestroyInstance", "")>>

\* semaphores, fences and command pool (and with it the command buffers), then
\* pipeline, layout and render pass, then device, surface, messenger and instance
Destroy_Rest ==
  /\ pc = "destroyRest"
  /\ live' = DestroyHandles({mPipeline, mPipelineLayout, mRenderPass}
                              \cup DOMAIN FrameObjectKinds)
  /\ rebuilt' = [rebuilt EXCEPT !.destroyed["pipeline"] = @ + 1,
                                !.destroyed["pipelineLayout"] = @ + 1,
                                !.destroyed["renderPass"] = @ + 1]
  /\ \E hasValidationLayers \in BOOLEAN :
       calls' = calls \o DestroyCalls(hasValidationLayers)
  /\ pc' = "destroyed"
  /\ UNCHANGED <<caller, mCurrentFrame, framebufferResized, imageIdx, result,
                 mInFlightFences, mImageAvailableSems, mRenderFinishedSems,
                 mSwapChain, mSwapChainImageViews, mSwapChainFramebuffers,
                 mRenderPass, mPipelineLayout, mPipeline, nextHandle, gpuWork,
                 presentQueue, ticks, ticksDone, lastPresent, backendOk,
                 notifyCount, notifyTick, recreateCount, recreateTick, latchAtTickStart,
                 gpuTrace, selectVars>>

(***************************************************************************)
(* The GPU, running beside the host thread                                 *)
(***************************************************************************)
\* a submission of slot s runs once image-available has a signal: it takes
\* that signal, and on completion signals render-finished and the fence
GpuExecute(s) ==
  /\ pc \notin Dead
  /\ gpuWork[s] > 0
  /\ mImageAvailableSems[s]
  /\ gpuWork' = [gpuWork EXCEPT ![s] = @ - 1]
  /\ mImageAvailableSems' = [mImageAvailableSems EXCEPT ![s] = FALSE]
  /\ mRenderFinishedSems' = [mRenderFinishedSems EXCEPT ![s] = TRUE]
  /\ mInFlightFences' = [mInFlightFences EXCEPT ![s] = TRUE]
  /\ gpuTrace' = [gpuTrace EXCEPT
                    !.rendered[s] = <<gpuTrace.workOf[s], gpuTrace.workOf[s] \in gpuTrace.acquired>>,
                    !.finished = @ \cup {gpuTrace.workOf[s]},
                    !.workOf[s] = 0]
  /\ UNCHANGED <<pc, caller, mCurrentFrame, framebufferResized, imageIdx, result,
                 mSwapChain, mSwapChainImageViews, mSwapChainFramebuffers,
                 mRenderPass, mPipelineLayout, mPipeline, live, nextHandle,
                 presentQueue, ticks, ticksDone, calls, lastPresent, rebuilt,
                 backendOk, notifyCount, notifyTick, recreateCount, recreateTick,
                 latchAtTickStart,
                 selectVars>>

\* a queued present of slot s takes the render-finished signal
GpuPresent(s) ==
  /\ pc \notin Dead
  /\ presentQueue[s] > 0
  /\ mRenderFinishedSems[s]
  /\ presentQueue' = [presentQueue EXCEPT ![s] = @ - 1]
  /\ mRenderFinishedSems' = [mRenderFinishedSems EXCEPT ![s] = FALSE]
  /\ gpuTrace' = [gpuTrace EXCEPT
                    !.presented[s] = <<Head(gpuTrace.presentsOf[s]),
                                       Head(gpuTrace.presentsOf[s]) \in gpuTrace.finished>>,
                    !.presentsOf[s] = Tail(@)]
  /\ UNCHANGED <<pc, caller, mCurrentFrame, framebufferResized, imageIdx, result,
                 mInFlightFences, mImageAvailableSems, mSwapChain,
                 mSwapChainImageViews, mSwapChainFramebuffers, mRenderPass,
                 mPipelineLayout, mPipeline, live, nextHandle, gpuWork, ticks,
                 ticksDone, calls, lastPresent, rebuilt, backendOk, notifyCount,
                 notifyTick, recreateCount, recreateTick, latchAtTickStart,
                 selectVars>>

Gpu == \E s \in Slots : GpuExecute(s) \/ GpuPresent(s)

Next ==
  \/ PollEvents
  \/ Close
  \/ DrawFrame_WaitFence
  \/ DrawFrame_Acquire
  \/ DrawFrame_Record
  \/ DrawFrame_Submit
  \/ DrawFrame_Present
  \/ DrawFrame_Check
  \/ DrawFrame_Advance
  \/ Recreate_WaitIdle
  \/ CleanupSwapChain
  \/ CreateSwapChain
  \/ CreateImageViews
  \/ CreateFramebuffers
  \/ Destroy_WaitIdle
  \/ Destroy_Rest
  \/ Gpu

Spec == Init /\ [][Next]_vars

\* The frame loop with its scheduling: the host thread goes on when its fence
\* wait can return, and the GPU runs a submission whose wait semaphore has a
\* signal and begins a queued present whose wait semaphore has one.
SpecLive ==
  /\ Init
  /\ [][Next]_vars
  /\ WF_vars(DrawFrame_WaitFence)
  /\ \A s \in Slots : WF_vars(GpuExecute(s)) /\ WF_vars(GpuPresent(s))

(***************************************************************************)
(* Claims about the frame loop (checked under Spec)                        *)
(***************************************************************************)
LiveOfKind(kind) == {h \in DOMAIN live : live[h] = kind}

\* the host thread is inside recreateSwapChain
InRecreate ==
  \/ pc \in {"createSwapChain", "createImageViews", "createFramebuffers"}
  \/ pc = "cleanupSwapChain" /\ caller = "recreateSwapChain"

\* the host thread is inside a call of DrawFrame
InTick ==
  \/ pc \in {"acquire", "record", "submit", "present", "check", "advance", "recreateSwapChain"}
  \/ InRecreate

\* the current tick called recreateSwapChain and it returned
RecreatedThisTick == CalledWith("vkCreateFramebuffer", VK_SUCCESS)

\* C1: the frame slot index starts at 0 and after the k-th DrawFrame tick is
\* k mod 2, and the k-th tick itself runs on slot (k-1) mod 2, whether or not
\* earlier ticks recreated the swapchain.
C1_FrameIndexCycles ==
  /\ pc \in {"loop", "DrawFrame"} => mCurrentFrame = ticks % 2
  /\ InTick => mCurrentFrame = (ticks - 1) % 2
  /\ ticks = 0 => mCurrentFrame = 0

C1_Witness ==
  pc = "loop" /\ ticks = 3 /\ mCurrentFrame = 1 /\ recreateCount = 1 /\ recreateTick = 2

\* C2 (as claimed): a tick whose acquisition reports out-of-date records,
\* submits and presents nothing, and ends having recreated the swapchain.
C2_AcquireOutOfDateSkipsTick ==
  CalledWith("vkAcquireNextImageKHR", VK_ERROR_OUT_OF_DATE_KHR) =>
    /\ ~Called("vkBeginCommandBuffer")
    /\ ~Called("vkQueueSubmit")
    /\ ~Called("vkQueuePresentKHR")
    /\ pc \in {"advance", "loop"} => RecreatedThisTick

\* C3: when a tick ends, it has recreated the swapchain exactly if its present
\* returned out-of-date or suboptimal or the latch was set, and then the latch
\* is false.
C3_RecreateIffStaleOrResized ==
  (pc \in {"advance", "loop"} /\ ticks > 0) =>
    /\ RecreatedThisTick <=>
         \/ CalledWith("vkQueuePresentKHR", VK_ERROR_OUT_OF_DATE_KHR)
         \/ CalledWith("vkQueuePresentKHR", VK_SUBOPTIMAL_KHR)
         \/ latchAtTickStart
    /\ RecreatedThisTick => ~framebufferResized
    /\ CountCalls("vkCreateSwapchainKHR") <= 1

C3_Witness ==
  /\ pc = "advance"
  /\ RecreatedThisTick
  /\ result = VK_SUBOPTIMAL_KHR
  /\ ~latchAtTickStart

\* C4 (as claimed): after a failed submit, or a present result other than
\* success, out-of-date and suboptimal, the process is terminated and nothing
\* else happens: no recreation, no further tick.
C4_OtherFailuresAreFatal ==
  /\ CalledWith("vkQueueSubmit", VK_ERROR_DEVICE_LOST) => pc = "terminated"
  /\ (CalledWith("vkQueuePresentKHR", VK_ERROR_DEVICE_LOST) /\ pc # "check") =>
       pc = "terminated"

\* C5 (as claimed): at the acquisition that follows an out-of-date present, the
\* swapchain, the pipeline objects and the framebuffers have each been
\* destroyed and recreated once since that present, and the latch is false.
C5_PipelineRebuiltAndLatchClear ==
  (pc = "acquire" /\ lastPresent = VK_ERROR_OUT_OF_DATE_KHR) =>
    /\ \A k \in {"swapchain", "pipelineLayout", "pipeline"} :
         rebuilt.destroyed[k] = 1 /\ rebuilt.created[k] = 1
    /\ rebuilt.destroyed["framebuffer"] = NumImages
    /\ rebuilt.created["framebuffer"] = NumImages
    /\ ~framebufferResized

\* C5 (amended): at the acquisition that follows an out-of-date present, the
\* swapchain, every image view and every framebuffer have been destroyed and
\* recreated exactly once since that present and no old one is left alive;
\* render pass, pipeline layout and pipeline were neither destroyed nor
\* created; and the latch is false when the tick of that present ends.
C5_SwapchainRebuiltOnce ==
  /\ (pc = "acquire" /\ lastPresent = VK_ERROR_OUT_OF_DATE_KHR) =>
       /\ rebuilt.destroyed["swapchain"] = 1 /\ rebuilt.created["swapchain"] = 1
       /\ \A k \in {"imageView", "framebuffer"} :
            rebuilt.destroyed[k] = NumImages /\ rebuilt.created[k] = NumImages
       /\ \A k \in {"renderPass", "pipelineLayout", "pipeline"} :
            rebuilt.destroyed[k] = 0 /\ rebuilt.created[k] = 0
       /\ LiveOfKind("swapchain") = {mSwapChain}
       /\ LiveOfKind("imageView") = Range(mSwapChainImageViews)
       /\ LiveOfKind("framebuffer") = Range(mSwapChainFramebuffers)
       /\ {mRenderPass, mPipelineLayout, mPipeline} \subseteq DOMAIN live
  /\ (pc \in {"advance", "loop"} /\ lastPresent = VK_ERROR_OUT_OF_DATE_KHR) =>
       ~framebufferResized

C5_Witness ==
  /\ pc = "acquire"
  /\ lastPresent = VK_ERROR_OUT_OF_DATE_KHR
  /\ rebuilt.created["swapchain"] = 1
  /\ framebufferResized

\* C6: while every backend call has returned VK_SUCCESS and exactly one resize
\* notification has been delivered, before tick k, the fatal path is not
\* taken, no tick but k recreates the swapchain, and tick k recreates it once.
C6_OneResizeOneRecreate ==
  (backendOk /\ notifyCount = 1) =>
    /\ pc \notin {"terminated", "crashed"}
    /\ recreateCount <= 1
    /\ recreateCount = 1 => recreateTick = notifyTick
    /\ ticksDone >= notifyTick => recreateCount = 1
    /\ ticks < notifyTick => recreateCount = 0

C6_Witness ==
  /\ backendOk
  /\ notifyCount = 1
  /\ notifyTick = 2
  /\ ticksDone = 3
  /\ recreateCount = 1
  /\ recreateTick = 2

\* C7 (as claimed): the latch goes from true to false only once the
\* recreation of that tick has completed.
C7_LatchClearedAfterRecreate ==
  [][(framebufferResized /\ ~framebufferResized') => RecreatedThisTick]_vars

\* C7 (amended): the latch goes from true to false only in the step of
\* DrawFrame that decides to recreate, before recreateSwapChain has made its
\* first call, and it is false all through that recreation.
C7_LatchClearedBeforeRecreate ==
  /\ [][(framebufferResized /\ ~framebufferResized') =>
          (pc = "check" /\ pc' = "recreateSwapChain" /\ ~Called("vkDeviceWaitIdle"))]_vars
  /\ []((pc = "recreateSwapChain" \/ InRecreate) => ~framebufferResized)

C7_Witness ==
  /\ pc = "recreateSwapChain"
  /\ latchAtTickStart
  /\ ~framebufferResized
  /\ ~Called("vkDeviceWaitIdle")

Before(first, second) ==
  \A i, j \in DOMAIN calls : (calls[i].op = first /\ calls[j].op = second) => i < j

\* the calls of one recreation in the claimed order, for a swapchain of
\* NumImages images
ClaimedRecreateOrder ==
  <<"vkDeviceWaitIdle">>
    \o [i \in 1 .. NumImages |-> "vkDestroyFramebuffer"]
    \o [i \in 1 .. NumImages |-> "vkDestroyImageView"]
    \o <<"vkDestroySwapchainKHR", "vkCreateSwapchainKHR", "vkCreateImageView",
          "vkCreateFramebuffer">>

IsRecreateCall(call) == call.op \in Range(ClaimedRecreateOrder)

\* C16: recreateSwapChain first waits for the device to be idle, then destroys
\* all framebuffers, then all image views, then the swapchain, and only then
\* creates the swapchain, the image views and the framebuffers: nothing is
\* destroyed before the wait has returned, and nothing is created while an
\* old framebuffer, image view or swapchain is alive.
C16_RecreateOrder ==
  /\ caller = "recreateSwapChain" =>
       LET log == SelectSeq(calls, IsRecreateCall) IN
         /\ Len(log) <= Len(ClaimedRecreateOrder)
         /\ \A i \in DOMAIN log : log[i].op = ClaimedRecreateOrder[i]
  /\ (pc = "cleanupSwapChain" /\ caller = "recreateSwapChain") => GpuIdle
  /\ pc = "createSwapChain" =>
       /\ LiveOfKind("framebuffer") = {}
       /\ LiveOfKind("imageView") = {}
       /\ LiveOfKind("swapchain") = {}

C16_Witness ==
  /\ pc = "advance"
  /\ caller = "recreateSwapChain"
  /\ CountCalls("vkDeviceWaitIdle") = 1
  /\ CountCalls("vkDestroyImageView") = NumImages
  /\ CalledWith("vkCreateFramebuffer", VK_SUCCESS)
  /\ LiveOfKind("framebuffer") = Range(mSwapChainFramebuffers)

\* the place of each call of Destroy in the claimed order
DestroyRank ==
  [op \in {"vkDeviceWaitIdle"} |-> 0]
    @@ [op \in {"vkDestroyFramebuffer"} |-> 1]
    @@ [op \in {"vkDestroyImageView"} |-> 2]
    @@ [op \in {"vkDestroySwapchainKHR"} |-> 3]
    @@ [op \in {"vkDestroySemaphore", "vkDestroyFence"} |-> 4]
    @@ [op \in {"vkDestroyCommandPool"} |-> 5]
    @@ [op \in {"vkDestroyPipeline"} |-> 6]
    @@ [op \in {"vkDestroyPipelineLayout"} |-> 7]
    @@ [op \in {"vkDestroyRenderPass"} |-> 8]
    @@ [op \in {"vkDestroyDevice"} |-> 9]
    @@ [op \in {"vkDestroySurfaceKHR"} |-> 10]
    @@ [op \in {"DestroyDebugUtilsMessengerEXT"} |-> 11]
    @@ [op \in {"vkDestroyInstance"} |-> 12]

\* the destroy call of an object and that of an object it was created from
CreatedFrom ==
  { <<"vkDestroyFramebuffer", "vkDestroyImageView">>,
    <<"vkDestroyFramebuffer", "vkDestroyRenderPass">>,
    <<"vkDestroyImageView", "vkDestroySwapchainKHR">>,
    <<"vkDestroySwapchainKHR", "vkDestroySurfaceKHR">>,
    <<"vkDestroySwapchainKHR", "vkDestroyDevice">>,
    <<"vkDestroySemaphore", "vkDestroyDevice">>,
    <<"vkDestroyFence", "vkDestroyDevice">>,
    <<"vkDestroyCommandPool", "vkDestroyDevice">>,
    <<"vkDestroyPipeline", "vkDestroyPipelineLayout">>,
    <<"vkDestroyPipeline", "vkDestroyRenderPass">>,
    <<"vkDestroyPipelineLayout", "vkDestroyDevice">>,
    <<"vkDestroyRenderPass", "vkDestroyDevice">>,
    <<"vkDestroyDevice", "vkDestroyInstance">>,
    <<"vkDestroySurfaceKHR", "vkDestroyInstance">>,
    <<"DestroyDebugUtilsMessengerEXT", "vkDestroyInstance">> }

\* C17: Destroy waits for the device to be idle and then destroys framebuffers,
\* image views and swapchain, semaphores and fences, command pool, pipeline,
\* pipeline layout, render pass, device, surface, debug messenger and
\* instance, in this order, each of them (the messenger where the build has
\* one); no object is destroyed after an object it was created from.
C17_DestroyOrder ==
  /\ (caller = "Destroy" /\ pc \in {"cleanupSwapChain", "destroyRest", "destroyed"}) =>
       /\ calls[1].op = "vkDeviceWaitIdle"
       /\ \A i \in 1 .. (Len(calls) - 1) :
            DestroyRank[calls[i].op] <= DestroyRank[calls[i + 1].op]
  /\ pc = "cleanupSwapChain" => GpuIdle
  /\ pc = "destroyed" =>
       /\ \A pair \in CreatedFrom : Before(pair[1], pair[2])
       /\ \A op \in (DOMAIN DestroyRank) \ {"DestroyDebugUtilsMessengerEXT"} : Called(op)
       /\ CountCalls("vkDestroySemaphore") = 2 * MAX_FRAMES_IN_FLIGHT
       /\ CountCalls("vkDestroyFence") = MAX_FRAMES_IN_FLIGHT
       /\ CountCalls("vkDestroyFramebuffer") = Len(mSwapChainFramebuffers)
       /\ CountCalls("vkDestroyImageView") = Len(mSwapChainImageViews)
       /\ DOMAIN live = {}

C17_Witness ==
  /\ pc = "destroyed"
  /\ Called("DestroyDebugUtilsMessengerEXT")
  /\ calls[Len(calls)].op = "vkDestroyInstance"
  /\ recreateCount = 1
  /\ ticksDone = 2

\* a step of the host thread that belongs to recreateSwapChain
RecreateStep ==
  /\ pc = "recreateSwapChain" \/ InRecreate
  /\ pc' # pc

\* the frame objects are alive, each of its kind
FrameObjectsAlive ==
  \A h \in DOMAIN FrameObjectKinds : h \in DOMAIN live /\ live[h] = FrameObjectKinds[h]

\* C18: no step of recreateSwapChain changes a semaphore, a fence, a command
\* buffer, the command pool or the frame slot index, and the objects created
\* for the frame slots by Init stay alive through any number of recreations,
\* until Destroy.
C18_FrameObjectsSurviveRecreate ==
  /\ [][RecreateStep =>
          /\ UNCHANGED <<mCurrentFrame, mInFlightFences, mImageAvailableSems,
                         mRenderFinishedSems>>
          /\ \A h \in DOMAIN FrameObjectKinds :
               h \in DOMAIN live' /\ live'[h] = FrameObjectKinds[h]
          /\ ~\E i \in DOMAIN calls' :
               calls'[i].op \in {"vkDestroySemaphore", "vkDestroyFence", "vkDestroyCommandPool"}]_vars
  /\ [](pc \notin {"destroyed"} => FrameObjectsAlive)

C18_Witness ==
  /\ pc = "loop"
  /\ recreateCount = 2
  /\ ticksDone = 3
  /\ mCurrentFrame = 1
  /\ FrameObjectsAlive
  /\ mSwapChain \notin {1, 2 * NumImages + 6 + 4 * MAX_FRAMES_IN_FLIGHT}

\* the state of the renderer apart from the resize latch
RendererButLatch ==
  <<mCurrentFrame, imageIdx, result, mInFlightFences, mImageAvailableSems,
    mRenderFinishedSems, mSwapChain, mSwapChainImageViews, mSwapChainFramebuffers,
    mRenderPass, mPipelineLayout, mPipeline, live, nextHandle, calls,
    recreateCount>>

\* C20: the resize notification only sets the latch to true: the state of the
\* renderer is otherwise as before, nothing is destroyed or created, and the
\* swapchain is recreated only inside DrawFrame, after its present call.
C20_NotifyOnlySetsLatch ==
  /\ [][(pc = "loop" /\ pc' = "DrawFrame") =>
          /\ UNCHANGED RendererButLatch
          /\ framebufferResized' \/ ~framebufferResized
          /\ notifyCount' # notifyCount => framebufferResized']_vars
  /\ []((pc = "recreateSwapChain" \/ InRecreate) => Called("vkQueuePresentKHR"))

C20_Witness ==
  /\ pc = "DrawFrame"
  /\ notifyCount = 1
  /\ notifyTick = 2
  /\ framebufferResized
  /\ recreateCount = 0
  /\ mSwapChain = 1

\* C21 (as claimed): in every slot, the submission of a tick starts rendering
\* only on the image-available signal given by the acquisition of that same
\* tick, and the present of a tick begins only on the render-finished signal
\* given by the submission of that same tick.
C21_GpuOrderWithinTick ==
  \A s \in Slots :
    /\ gpuTrace.rendered[s] # <<>> =>
         /\ gpuTrace.rendered[s][2]
         /\ (gpuTrace.rendered[s][1] - 1) % MAX_FRAMES_IN_FLIGHT = s
    /\ gpuTrace.presented[s] # <<>> =>
         /\ gpuTrace.presented[s][2]
         /\ (gpuTrace.presented[s][1] - 1) % MAX_FRAMES_IN_FLIGHT = s

\* the GPU eventually completes every submitted command buffer: whenever a
\* slot has an incomplete submission, it later has none; said of all times,
\* this is that the slot has none infinitely often
GpuCompletes == \A s \in Slots : []<>(gpuWork[s] = 0)

\* the current tick passed its submit
PastSubmit ==
  \/ pc \in {"present", "check", "recreateSwapChain", "advance"}
  \/ InRecreate
  \/ pc \in {"loop", "DrawFrame"} /\ ticks > 0

\* C22: the first fence wait of each slot finds the fence signaled; a tick
\* that reset the fence and did not end in the fatal path has handed it to a
\* successful queue submit, so an unsignaled fence always belongs to a queued
\* submission or to the tick that is about to submit; and, if the GPU
\* eventually completes every submission, every fence wait at the start of a
\* tick eventually returns.
C22_FenceWaitReturns ==
  /\ []((pc = "DrawFrame" /\ ticks < MAX_FRAMES_IN_FLIGHT) => mInFlightFences[mCurrentFrame])
  /\ [](PastSubmit => CalledWith("vkQueueSubmit", VK_SUCCESS))
  /\ [](\A s \in Slots :
          ~mInFlightFences[s] =>
            \/ gpuWork[s] > 0
            \/ s = mCurrentFrame /\ pc \in {"acquire", "record", "submit"}
            \/ pc \in {"terminated", "crashed"})
  /\ GpuCompletes => [](pc = "DrawFrame" => <>(pc = "acquire"))

C22_Witness ==
  /\ pc = "acquire"
  /\ ticks = 3
  /\ mCurrentFrame = 0
  /\ gpuTrace.rendered[0] = <<1, TRUE>>
  /\ ~mInFlightFences[0]
  /\ gpuWork[1] = 1

\* the command buffer, the two semaphores and the fence of a slot
SlotObjects(s) ==
  {FrameObjects.commandBuffers[s], FrameObjects.imageAvailable[s],
   FrameObjects.renderFinished[s], FrameObjects.inFlight[s]}

SwapchainObjects == <<mSwapChain, mSwapChainImageViews, mSwapChainFramebuffers>>

\* the latest call in the log of the current tick is of one of the given
\* operations or follows the latest call of any of them
QueueCalls == {"vkAcquireNextImageKHR", "vkQueueSubmit", "vkQueuePresentKHR"}

WaitedIdleSinceQueueCalls ==
  \E i \in DOMAIN calls :
    /\ calls[i].op = "vkDeviceWaitIdle"
    /\ \A j \in DOMAIN calls : calls[j].op \in QueueCalls => j < i

AcquiredThisTick ==
  \/ CalledWith("vkAcquireNextImageKHR", VK_SUCCESS)
  \/ CalledWith("vkAcquireNextImageKHR", VK_SUBOPTIMAL_KHR)

\* C28 (as claimed): a tick that has recorded its command buffer or called
\* present has acquired an image in the same tick, and from the recording to
\* the test of the present result the index it uses is one of the current
\* framebuffer list.
C28_ImageIdxFromAcquire ==
  /\ (Called("vkBeginCommandBuffer") \/ Called("vkQueuePresentKHR")) => AcquiredThisTick
  /\ pc \in {"submit", "present", "check"} =>
       /\ imageIdx # <<>>
       /\ imageIdx[1] < Len(mSwapChainFramebuffers)

\* the step is a successful vkQueueSubmit of slot s: a wait on image-available
\* and a signal of render-finished are handed to the queue
SubmitStep(s) == gpuWork'[s] > gpuWork[s]

\* the step is a vkQueuePresentKHR of slot s that queues its wait on
\* render-finished
PresentStep(s) == presentQueue'[s] > presentQueue[s]

\* the step is a vkAcquireNextImageKHR that gives the signal of image-available
AcquireStep == gpuTrace'.acquired # gpuTrace.acquired

\* C31 (as claimed): an acquire gives its signal to an image-available
\* semaphore with no signal pending; a submit waits on an image-available
\* semaphore that has a signal pending and hands a signal to a render-finished
\* semaphore only when the earlier signal on it has been consumed; a present
\* waits on a render-finished semaphore whose signal is pending or is still to
\* come from the submission in the queue.
C31_BinarySemaphoreDiscipline ==
  /\ [][AcquireStep => ~mImageAvailableSems[mCurrentFrame]]_vars
  /\ [][\A s \in Slots : SubmitStep(s) =>
                            mImageAvailableSems[s] /\ ~mRenderFinishedSems[s]]_vars
  /\ [][\A s \in Slots : PresentStep(s) =>
                            (mRenderFinishedSems[s] \/ gpuWork[s] > 0)]_vars

\* the swapchain, image views and framebuffers the members name now
CurrentSwapchainObjects ==
  [swapchain   |-> {mSwapChain},
   imageView   |-> Range(mSwapChainImageViews),
   framebuffer |-> Range(mSwapChainFramebuffers)]

SwapchainKinds == {"swapchain", "imageView", "framebuffer"}

\* the host thread is in a statement of DrawFrame before the test of the
\* present result, or between two ticks
UsesSwapchain == pc \in {"loop", "DrawFrame", "acquire", "record", "submit", "present", "check"}

\* C32: every handle cleanupSwapChain destroys, in a recreation or in Destroy,
\* is alive when it is destroyed and named once, and these are all the
\* swapchains, image views and framebuffers alive, so none is destroyed twice
\* and none is left over; while DrawFrame acquires, records, submits and
\* presents, the swapchain, image views and framebuffers it names are alive
\* and are the only ones; after Destroy none exists.
C32_SwapchainObjectsDestroyedOnce ==
  /\ pc = "cleanupSwapChain" =>
       LET t == CleanupTargets
           hs == Range(t.framebuffer) \cup Range(t.imageView) \cup Range(t.swapchain)
       IN  /\ hs \subseteq DOMAIN live
           /\ Cardinality(hs) = Len(t.framebuffer) + Len(t.imageView) + Len(t.swapchain)
           /\ hs = UNION {LiveOfKind(k) : k \in SwapchainKinds}
  /\ UsesSwapchain =>
       \A k \in SwapchainKinds : LiveOfKind(k) = CurrentSwapchainObjects[k]
  /\ pc \in {"createSwapChain", "destroyRest", "destroyed"} =>
       \A k \in SwapchainKinds : LiveOfKind(k) = {}
  /\ \A h \in DOMAIN live : h < nextHandle

C32_Witness ==
  /\ pc = "destroyed"
  /\ recreateCount = 2
  /\ ticksDone = 3
  /\ mSwapChain \notin DOMAIN live
  /\ nextHandle > mSwapChain + 2 * NumImages

\* glfwPollEvents has just run the framebuffer-size callback at least once: the
\* count of notifications went up (the count stops at Several)
NotificationDelivered == pc = "loop" /\ pc' = "DrawFrame" /\ notifyCount' # notifyCount

\* DrawFrame has returned to Run and Run has not polled again
TickEnded == pc \in {"advance", "loop"} /\ ticks > 0

\* C34: a delivered notification sets the latch the next DrawFrame starts
\* with; the latch a tick starts with is still set when the tick tests it;
\* a tick that started with the latch set and returns to Run has recreated the
\* swapchain exactly once, whether one or several notifications came before
\* it and whatever its present returned, and has left the latch clear, so no
\* later tick recreates for the same notifications.
C34_NotificationsCoalesce ==
  /\ [][NotificationDelivered => framebufferResized']_vars
  /\ [](pc = "loop" => ~framebufferResized)
  /\ []((pc \in {"acquire", "record", "submit", "present", "check"} /\ latchAtTickStart) =>
          framebufferResized)
  /\ []((TickEnded /\ latchAtTickStart) =>
          /\ RecreatedThisTick
          /\ CountCalls("vkDeviceWaitIdle") = 1
          /\ CountCalls("vkCreateSwapchainKHR") = 1
          /\ ~framebufferResized)
  /\ []((TickEnded /\ notifyCount > 0 /\ ticks = notifyTick) =>
          (latchAtTickStart /\ recreateCount >= 1))

C34_Witness ==
  /\ pc = "advance"
  /\ ticks = 3
  /\ notifyTick = 3
  /\ notifyCount = Several(MaxNotify)
  /\ latchAtTickStart
  /\ result = VK_ERROR_OUT_OF_DATE_KHR
  /\ CountCalls("vkCreateSwapchainKHR") = 1
  /\ recreateCount = 2

(***************************************************************************)
(* Renderer::Impl::selectPhysicalDevice                                    *)
(***************************************************************************)
REQUIRED_DEVICE_EXTENSIONS == {"VK_KHR_swapchain"}

DISCRETE_GPU == "VK_PHYSICAL_DEVICE_TYPE_DISCRETE_GPU"
INTEGRATED_GPU == "VK_PHYSICAL_DEVICE_TYPE_INTEGRATED_GPU"
CPU == "VK_PHYSICAL_DEVICE_TYPE_CPU"
VIRTUAL_GPU == "VK_PHYSICAL_DEVICE_TYPE_VIRTUAL_GPU"

DeviceTypes == {DISCRETE_GPU, INTEGRATED_GPU, CPU, VIRTUAL_GPU}

\* limits.maxImageDimension2D: two values with the same quotient by 100, and
\* one large enough to outweigh the bonus of a device type
ImageDimensions == {4096, 4099, 200000}

\* extensions, surface formats and present modes of a device: everything the
\* selection needs, and each of the three things it can lack
SurfaceProfiles ==
  { [extensions |-> {"VK_KHR_swapchain", "VK_KHR_maintenance1"},
     surfaceFormats |-> <<"VK_FORMAT_B8G8R8A8_SRGB">>,
     presentModes |-> <<"VK_PRESENT_MODE_FIFO_KHR">>],
    [extensions |-> {"VK_KHR_maintenance1"},
     surfaceFormats |-> <<"VK_FORMAT_B8G8R8A8_SRGB">>,
     presentModes |-> <<"VK_PRESENT_MODE_FIFO_KHR">>],
    [extensions |-> {"VK_KHR_swapchain"},
     surfaceFormats |-> <<>>,
     presentModes |-> <<"VK_PRESENT_MODE_FIFO_KHR">>],
    [extensions |-> {"VK_KHR_swapchain"},
     surfaceFormats |-> <<"VK_FORMAT_B8G8R8A8_SRGB">>,
     presentModes |-> <<>>] }

\* enum GraphicsQueueCapabilityType, in the order of its enumerators, which is
\* the order of the case labels in GetQueueFamilyIdxWithCapability
CapabilityTypes ==
  <<"Graphics", "Compute", "Transfer", "Sparse_binding", "Protected",
    "Video_decode", "Video_encode", "Optical_flow", "Present">>

\* struct QueueCapabilities of a family that has exactly the given capabilities
QueueCapabilities(flags) == [c \in Range(CapabilityTypes) |-> c \in flags]

\* a family that can do everything the renderer asks for
UniversalFamily == QueueCapabilities({"Graphics", "Compute", "Transfer", "Present"})

\* a family that cannot present to the surface
PresentlessFamily == QueueCapabilities({"Graphics", "Compute", "Transfer"})

\* struct PhysicalDevice, the fields selectPhysicalDevice reads, with the queue
\* families, which it does not read, of a one-family device; and two devices
\* that lack nothing selectPhysicalDevice looks at but whose one family cannot
\* present
DeviceRecords ==
  { [deviceType |-> t, maxImageDimension2D |-> d, extensions |-> p.extensions,
     surfaceFormats |-> p.surfaceFormats, presentModes |-> p.presentModes,
     queueFamiliesCapabilities |-> <<UniversalFamily>>] :
      t \in DeviceTypes, d \in ImageDimensions, p \in SurfaceProfiles }
  \cup
  { [deviceType |-> t, maxImageDimension2D |-> 4096,
     extensions |-> {"VK_KHR_swapchain", "VK_KHR_maintenance1"},
     surfaceFormats |-> <<"VK_FORMAT_B8G8R8A8_SRGB">>,
     presentModes |-> <<"VK_PRESENT_MODE_FIFO_KHR">>,
     queueFamiliesCapabilities |-> <<PresentlessFamily>>] :
      t \in {DISCRETE_GPU, CPU} }

\* what GetPhysicalDevices can return when probePhysicalDevices lets Init go on
DeviceLists == UNION {[1 .. n -> DeviceRecords] : n \in 1 .. MaxDevices}

\* a test that finds every device complete
MissingExtensionsNone(device) == {}

\* the set requiredExtensions after every extension of the device is erased
MissingExtensions(device) == REQUIRED_DEVICE_EXTENSIONS \ device.extensions

\* a score that forgets the bonus of the device type
ScoreNoTypeBonus(device) == device.maxImageDimension2D \div 100

\* int32_t score: the bonus of the switch plus maxImageDimension2D / 100 (the
\* sum stays far below 2^31 for every uint32_t limit)
Score(device) ==
  (CASE device.deviceType = DISCRETE_GPU -> 2000
     [] device.deviceType = INTEGRATED_GPU -> 500
     [] device.deviceType = CPU -> 50
     [] OTHER -> 0)
  + device.maxImageDimension2D \div 100

\* an insertion before the elements with an equal key
MultimapInsertFirst(m, key, value) ==
  LET n == Cardinality({j \in DOMAIN m : m[j][1] < key})
  IN  SubSeq(m, 1, n) \o <<<<key, value>>>> \o SubSeq(m, n + 1, Len(m))

\* std::multimap<int32_t, size_t>::insert: the sequence stays ordered by key,
\* and the new element goes after the elements with an equal key
MultimapInsert(m, key, value) ==
  LET n == Cardinality({j \in DOMAIN m : m[j][1] <= key})
  IN  SubSeq(m, 1, n) \o <<<<key, value>>>> \o SubSeq(m, n + 1, Len(m))

\* the multimap candidates after the loop has seen the first n devices
RECURSIVE Candidates(_, _)
Candidates(devices, n) ==
  IF n = 0 THEN <<>>
  ELSE LET prev == Candidates(devices, n - 1)
           device == devices[n]
       IN  IF MissingExtensions(device) # {} THEN prev
           ELSE IF device.presentModes = <<>> \/ device.surfaceFormats = <<>> THEN prev
           ELSE MultimapInsert(prev, Score(device), n - 1)

\* candidates.rbegin()->second
LastCandidate(candidates) == candidates[Len(candidates)][2]

\* MAPLE_FATAL in a function that Init calls
FatalIn(function) ==
  /\ selPc' = "terminated"
  /\ fatalIn' = function

\* Init calls the function; recreateSwapChain calling it leaves no entry
InitCalls(function) ==
  initCalls' = IF swapChainCaller = "recreateSwapChain"
               THEN initCalls
               ELSE Append(initCalls, function)

SelectPhysicalDevice ==
  /\ selPc = "selectPhysicalDevice"
  /\ LET candidates == Candidates(mPhysicalDevices, Len(mPhysicalDevices)) IN
       IF Len(candidates) < 1
       THEN /\ FatalIn("selectPhysicalDevice")
            /\ UNCHANGED mSelectedDeviceIdx
       ELSE /\ mSelectedDeviceIdx' = LastCandidate(candidates)
            /\ selPc' = "selected"
            /\ UNCHANGED fatalIn
  /\ InitCalls("selectPhysicalDevice")
  /\ UNCHANGED <<mPhysicalDevices, mQueueIndices, mDevice, windowSize,
                 mPresentModeIdx, mSurfaceFormatIdx, mExtent, createInfo,
                 framebufferInfo, swapChainCaller, sizeAtCreate, imageVars, frameVars>>

(***************************************************************************)
(* GetQueueFamilyIdxWithCapability and Renderer::Impl::createLogicalDevice *)
(***************************************************************************)
\* the place of a filter among the case labels
CapabilityPosition(filter) ==
  CHOOSE k \in DOMAIN CapabilityTypes : CapabilityTypes[k] = filter

\* one pass through the switch: no case ends in a break, so the test of the
\* filter's case and the test of every case below it run until one returns
FamilyMatches(caps, filter) ==
  \E k \in CapabilityPosition(filter) .. Len(CapabilityTypes) : caps[CapabilityTypes[k]]

\* std::optional<size_t>: <<>> for std::nullopt, else <<index>> of the first
\* family that makes the switch return
GetQueueFamilyIdxWithCapability(familyCapabilities, filter) ==
  LET hits == {i \in DOMAIN familyCapabilities :
                 FamilyMatches(familyCapabilities[i], filter)}
  IN  IF hits = {} THEN <<>>
      ELSE <<(CHOOSE i \in hits : \A j \in hits : i <= j) - 1>>

CreateLogicalDevice ==
  /\ selPc = "selected"
  /\ LET caps == mPhysicalDevices[mSelectedDeviceIdx + 1].queueFamiliesCapabilities
         graphicsFamilyIdx == GetQueueFamilyIdxWithCapability(caps, "Graphics")
         presentFamilyIdx == GetQueueFamilyIdxWithCapability(caps, "Present")
     IN  IF graphicsFamilyIdx = <<>>
         THEN /\ FatalIn("createLogicalDevice")
              /\ UNCHANGED <<mQueueIndices, mDevice>>
         ELSE IF presentFamilyIdx = <<>>
         THEN /\ mQueueIndices' = [mQueueIndices EXCEPT !.Graphics = graphicsFamilyIdx]
              /\ FatalIn("createLogicalDevice")
              /\ UNCHANGED mDevice
         ELSE /\ mQueueIndices' = [Graphics |-> graphicsFamilyIdx, Present |-> presentFamilyIdx]
              /\ \E res \in PlainResults :
                   IF res = VK_SUCCESS
                   THEN /\ mDevice' = "device"
                        /\ selPc' = "queueFamilies"
                        /\ UNCHANGED fatalIn
                   ELSE /\ FatalIn("createLogicalDevice")
                        /\ UNCHANGED mDevice
  /\ InitCalls("createLogicalDevice")
  /\ UNCHANGED <<mPhysicalDevices, mSelectedDeviceIdx, windowSize, mPresentModeIdx,
                 mSurfaceFormatIdx, mExtent, createInfo, framebufferInfo,
                 swapChainCaller, sizeAtCreate, imageVars, frameVars>>

InitSelect ==
  /\ InitFrame
  /\ mPhysicalDevices \in DeviceLists
  /\ mSelectedDeviceIdx = 0
  /\ selPc = "selectPhysicalDevice"
  /\ windowSize = <<>>
  /\ InitSwap

NextSelect ==
  \/ SelectPhysicalDevice
  \/ CreateLogicalDevice

SpecSelect == InitSelect /\ [][NextSelect]_vars

(***************************************************************************)
(* ChooseOptimalSurfaceFormat, ChooseOptimalPresentMode and                *)
(* ChooseOptimalSwapExtent (vk_utils.h)                                    *)
(***************************************************************************)
VK_FORMAT_B8G8R8A8_SRGB == "VK_FORMAT_B8G8R8A8_SRGB"
VK_COLOR_SPACE_SRGB_NONLINEAR_KHR == "VK_COLOR_SPACE_SRGB_NONLINEAR_KHR"
VK_PRESENT_MODE_MAILBOX_KHR == "VK_PRESENT_MODE_MAILBOX_KHR"
VK_PRESENT_MODE_FIFO_KHR == "VK_PRESENT_MODE_FIFO_KHR"
VK_PRESENT_MODE_IMMEDIATE_KHR == "VK_PRESENT_MODE_IMMEDIATE_KHR"

\* std::numeric_limits<uint32_t>::max(): the largest value of the type. TLC's
\* integers end at 2^31 - 1, so the model's unsigned type ends there; nothing
\* below adds to a value of this type.
Uint32Max == 2147483647

\* the least element of a non-empty set of positions
First(positions) == CHOOSE i \in positions : \A j \in positions : i <= j

\* the greatest element of a non-empty set of positions
Last(positions) == CHOOSE i \in positions : \A j \in positions : j <= i

\* a search that compares the format and forgets the colour space
ChooseOptimalSurfaceFormatAnyColorSpace(availableFormats) ==
  LET hits == {i \in DOMAIN availableFormats :
                 availableFormats[i].format = VK_FORMAT_B8G8R8A8_SRGB}
  IN  IF hits = {} THEN 0 ELSE First(hits) - 1

\* the loop returns at the first element with both fields equal; return 0 after it
ChooseOptimalSurfaceFormat(availableFormats) ==
  LET hits == {i \in DOMAIN availableFormats :
                 /\ availableFormats[i].format = VK_FORMAT_B8G8R8A8_SRGB
                 /\ availableFormats[i].colorSpace = VK_COLOR_SPACE_SRGB_NONLINEAR_KHR}
  IN  IF hits = {} THEN 0 ELSE First(hits) - 1

\* a search that returns at the first mailbox or FIFO element
ChooseOptimalPresentModeFirstHit(presentModes) ==
  LET hits == {i \in DOMAIN presentModes :
                 presentModes[i] \in {VK_PRESENT_MODE_MAILBOX_KHR, VK_PRESENT_MODE_FIFO_KHR}}
  IN  IF hits = {} THEN 0 .. Len(presentModes) ELSE {First(hits) - 1}

\* the values the function can return (0-based): the loop returns at the first
\* mailbox element; without one, fifoIdx holds the position of the last FIFO
\* element; without that either, fifoIdx is returned uninitialized and can be
\* any value (Len(presentModes) stands for every index past the end)
ChooseOptimalPresentMode(presentModes) ==
  LET mailbox == {i \in DOMAIN presentModes : presentModes[i] = VK_PRESENT_MODE_MAILBOX_KHR}
      fifo == {i \in DOMAIN presentModes : presentModes[i] = VK_PRESENT_MODE_FIFO_KHR}
  IN  IF mailbox # {} THEN {First(mailbox) - 1}
      ELSE IF fifo # {} THEN {Last(fifo) - 1}
      ELSE 0 .. Len(presentModes)

\* a clamp that lets every value through
ClampNone(v, lo, hi) == v

\* std::clamp(v, lo, hi), for lo <= hi
Clamp(v, lo, hi) == IF v < lo THEN lo ELSE IF hi < v THEN hi ELSE v

ChooseOptimalSwapExtent(capabilities, framebufferWidth, framebufferHeight) ==
  IF capabilities.currentExtent.width # Uint32Max
  THEN capabilities.currentExtent
  ELSE [width  |-> Clamp(framebufferWidth, capabilities.minImageExtent.width,
                         capabilities.maxImageExtent.width),
        height |-> Clamp(framebufferHeight, capabilities.minImageExtent.height,
                         capabilities.maxImageExtent.height)]

\* createInfo.imageSharingMode, the if / else at the end of createSwapChain
ImageSharingMode(indices) ==
  IF indices.Graphics # indices.Present
  THEN "VK_SHARING_MODE_CONCURRENT"
  ELSE "VK_SHARING_MODE_EXCLUSIVE"

\* a count that ignores the maximum of the surface
ImageCountUnbounded(capabilities) == capabilities.minImageCount + 1

\* uint32_t imageCount in createSwapChain: one more than the minimum, capped by
\* the maximum when the surface sets one
ImageCount(capabilities) ==
  LET imageCount == capabilities.minImageCount + 1
  IN  IF capabilities.maxImageCount > 0
      THEN (IF capabilities.maxImageCount < imageCount
            THEN capabilities.maxImageCount ELSE imageCount)
      ELSE imageCount

\* a check that lets every pair of families through
SeparateFamiliesIgnored(indices) == FALSE

\* mQueueIndices.Graphics != mQueueIndices.Present, the test in Init
SeparateFamilies(indices) == indices.Graphics # indices.Present

(***************************************************************************)
(* The devices and windows of SpecInit                                     *)
(***************************************************************************)
\* the preferred format, one with another format and one with another colour space
SurfaceFormats ==
  { [format |-> VK_FORMAT_B8G8R8A8_SRGB, colorSpace |-> VK_COLOR_SPACE_SRGB_NONLINEAR_KHR],
    [format |-> "VK_FORMAT_B8G8R8A8_UNORM", colorSpace |-> VK_COLOR_SPACE_SRGB_NONLINEAR_KHR],
    [format |-> VK_FORMAT_B8G8R8A8_SRGB, colorSpace |-> "VK_COLOR_SPACE_DISPLAY_P3_NONLINEAR_EXT"] }

\* what vkGetPhysicalDeviceSurfaceFormatsKHR can fill in: every ordering, with repeats
SurfaceFormatLists == UNION {[1 .. n -> SurfaceFormats] : n \in 1 .. MaxFormats}

PresentModes ==
  {VK_PRESENT_MODE_IMMEDIATE_KHR, VK_PRESENT_MODE_MAILBOX_KHR, VK_PRESENT_MODE_FIFO_KHR}

\* what vkGetPhysicalDeviceSurfacePresentModesKHR can fill in: every ordering of
\* every non-empty set of modes
PresentModeLists ==
  UNION { {l \in [1 .. n -> PresentModes] : \A i, j \in 1 .. n : l[i] = l[j] => i = j} :
            n \in 1 .. Cardinality(PresentModes) }

\* framebuffer sizes: width and height each below, inside and above the range
\* of MinImageExtent and MaxImageExtent
WindowSizes ==
  { [width |-> 200, height |-> 1200],
    [width |-> 800, height |-> 600],
    [width |-> 2560, height |-> 100] }

MinImageExtent == [width |-> 320, height |-> 240]

MaxImageExtent == [width |-> 1920, height |-> 1080]

\* surfaceCapabilities.currentExtent as vkGetPhysicalDeviceSurfaceCapabilitiesKHR
\* fills it in while the window has the given size: the size of the window, the
\* special value in both components, or the special value in one of them
CurrentExtents(size) ==
  { size,
    [width |-> Uint32Max, height |-> Uint32Max],
    [width |-> Uint32Max, height |-> size.height],
    [width |-> size.width, height |-> Uint32Max] }

\* minImageCount and maxImageCount as the surface reports them: at least one
\* image, and a maximum that is 0 (no limit) or not below the minimum.
\* minImageCount + 1 is far from the end of uint32_t for every such pair.
ImageCountLimits ==
  { [minImageCount |-> p[1], maxImageCount |-> p[2]] :
      p \in {q \in (1 .. MaxCounts) \X (0 .. (MaxCounts + 1)) : q[2] = 0 \/ q[2] >= q[1]} }

\* the limits of a surface that asks for two images and sets no maximum
PlainImageCounts == [minImageCount |-> 2, maxImageCount |-> 0]

SurfaceCapabilities(currentExtent, counts) ==
  [currentExtent |-> currentExtent,
   minImageExtent |-> MinImageExtent,
   maxImageExtent |-> MaxImageExtent,
   minImageCount |-> counts.minImageCount,
   maxImageCount |-> counts.maxImageCount]

\* what vkGetPhysicalDeviceQueueFamilyProperties and the present-support probe
\* can report for one family
QueueFamilies ==
  { UniversalFamily,
    QueueCapabilities({"Graphics", "Compute", "Transfer"}),
    QueueCapabilities({"Compute", "Transfer", "Present"}),
    QueueCapabilities({"Transfer"}) }

QueueFamilyLists == UNION {[1 .. n -> QueueFamilies] : n \in 1 .. MaxFamilies}

\* struct PhysicalDevice as GetPhysicalDevices fills it in
PhysicalDevice(formats, modes, currentExtent, families, counts) ==
  [deviceType |-> DISCRETE_GPU,
   maxImageDimension2D |-> 4096,
   extensions |-> {"VK_KHR_swapchain", "VK_KHR_maintenance1"},
   surfaceFormats |-> formats,
   presentModes |-> modes,
   surfaceCapabilities |-> SurfaceCapabilities(currentExtent, counts),
   queueFamiliesCapabilities |-> families]

\* the devices of SpecInit: one of the five things Init reads from the
\* selected device varies over all its values while the other four are those
\* of a plain device
InitDevices(size) ==
  LET formats == <<[format |-> VK_FORMAT_B8G8R8A8_SRGB,
                    colorSpace |-> VK_COLOR_SPACE_SRGB_NONLINEAR_KHR]>>
      modes == <<VK_PRESENT_MODE_FIFO_KHR>>
      undefined == [width |-> Uint32Max, height |-> Uint32Max]
      families == <<UniversalFamily>>
      counts == PlainImageCounts
  IN  {PhysicalDevice(f, modes, undefined, families, counts) : f \in SurfaceFormatLists}
        \cup {PhysicalDevice(formats, m, undefined, families, counts) : m \in PresentModeLists}
        \cup {PhysicalDevice(formats, modes, e, families, counts) : e \in CurrentExtents(size)}
        \cup {PhysicalDevice(formats, modes, undefined, q, counts) : q \in QueueFamilyLists}
        \cup {PhysicalDevice(formats, modes, undefined, families, c) : c \in ImageCountLimits}

(***************************************************************************)
(* Renderer::Impl::Init after createLogicalDevice, createSwapChain,        *)
(* createFramebuffers and the recreation DrawFrame asks for                *)
(***************************************************************************)
\* every variable of the frame loop but the resize latch
frameVarsButLatch ==
  <<pc, caller, mCurrentFrame, imageIdx, result, mInFlightFences,
    mImageAvailableSems, mRenderFinishedSems, mSwapChain, mSwapChainImageViews,
    mSwapChainFramebuffers, mRenderPass, mPipelineLayout, mPipeline, live,
    nextHandle, gpuWork, presentQueue, ticks, ticksDone, calls, lastPresent,
    rebuilt, backendOk, notifyCount, notifyTick, recreateCount, recreateTick,
    latchAtTickStart, gpuTrace>>

\* the test of the queue families in Init, then vkGetDeviceQueue twice
Init_QueueFamilies ==
  /\ selPc = "queueFamilies"
  /\ IF SeparateFamilies(mQueueIndices)
     THEN /\ FatalIn("Init")
          /\ UNCHANGED <<swapChainCaller, initCalls>>
     ELSE /\ selPc' = "createSwapChain"
          /\ swapChainCaller' = "Init"
          /\ InitCalls("vkGetDeviceQueue")
          /\ UNCHANGED fatalIn
  /\ UNCHANGED <<mPhysicalDevices, mSelectedDeviceIdx, mQueueIndices, mDevice,
                 windowSize, mPresentModeIdx, mSurfaceFormatIdx, mExtent,
                 createInfo, framebufferInfo, sizeAtCreate, imageVars, frameVars>>

\* the numbers of images vkCreateSwapchainKHR may make when asked for
\* minImageCount: that many or more
SwapchainImageCounts(minImageCount) == {minImageCount, minImageCount + 1}

\* the images vkGetSwapchainImagesKHR reports for the latest swapchain; the
\* images of the swapchain before it are other images
SwapchainImagesOf(swapchain) ==
  [i \in 1 .. swapchain.count |-> <<swapchain.gen, i>>]

\* createSwapChain: the size from mFramebufferSizeCallback, the three choices
\* from the record of the selected device, then vkCreateSwapchainKHR.
\* dev.presentModes[mPresentModeIdx] past the end reads an indeterminate value
\* or ends the process.
SwapChain_Create ==
  /\ selPc = "createSwapChain"
  /\ LET dev == mPhysicalDevices[mSelectedDeviceIdx + 1]
         framebufferWidth == windowSize.width
         framebufferHeight == windowSize.height
         extent == ChooseOptimalSwapExtent(dev.surfaceCapabilities,
                                           framebufferWidth, framebufferHeight)
         formatIdx == ChooseOptimalSurfaceFormat(dev.surfaceFormats)
     IN  \E modeIdx \in ChooseOptimalPresentMode(dev.presentModes),
            res \in PlainResults :
           \E crashes \in (IF modeIdx >= Len(dev.presentModes) THEN BOOLEAN ELSE {FALSE}) :
             /\ mPresentModeIdx' = <<modeIdx>>
             /\ mSurfaceFormatIdx' = <<formatIdx>>
             /\ mExtent' = extent
             /\ sizeAtCreate' = [previous |-> sizeAtCreate.latest, latest |-> windowSize]
             /\ IF crashes
                THEN /\ selPc' = "crashed"
                     /\ UNCHANGED <<createInfo, fatalIn, swapchainImages>>
                ELSE IF res # VK_SUCCESS
                THEN /\ FatalIn("createSwapChain")
                     /\ UNCHANGED <<createInfo, swapchainImages>>
                ELSE /\ createInfo' =
                          [minImageCount |-> ImageCount(dev.surfaceCapabilities),
                           imageFormat |-> dev.surfaceFormats[formatIdx + 1].format,
                           imageColorSpace |-> dev.surfaceFormats[formatIdx + 1].colorSpace,
                           imageExtent |-> extent,
                           presentMode |-> IF modeIdx < Len(dev.presentModes)
                                           THEN dev.presentModes[modeIdx + 1]
                                           ELSE "indeterminate",
                           imageSharingMode |-> ImageSharingMode(mQueueIndices)]
                     /\ \E count \in SwapchainImageCounts(ImageCount(dev.surfaceCapabilities)) :
                          swapchainImages' = [gen |-> 1 - swapchainImages.gen,
                                              count |-> count]
                     /\ selPc' = "createImageViews"
                     /\ UNCHANGED fatalIn
  /\ InitCalls("createSwapChain")
  /\ UNCHANGED <<mPhysicalDevices, mSelectedDeviceIdx, mQueueIndices, mDevice,
                 windowSize, framebufferInfo, swapChainCaller, imageViewInfo,
                 framebufferAttachments, frameVars>>

\* a step of Init or of recreateSwapChain that changes none of the values
\* modelled here: it ends the process when the backend reports a failure and
\* else goes on to the next step
PlainStep(function, next, canFail) ==
  /\ selPc = function
  /\ \E res \in (IF canFail THEN PlainResults ELSE {VK_SUCCESS}) :
       IF res = VK_SUCCESS
       THEN selPc' = next /\ UNCHANGED fatalIn
       ELSE FatalIn(function)
  /\ InitCalls(function)
  /\ UNCHANGED <<mPhysicalDevices, mSelectedDeviceIdx, mQueueIndices, mDevice,
                 windowSize, mPresentModeIdx, mSurfaceFormatIdx, mExtent,
                 createInfo, framebufferInfo, swapChainCaller, sizeAtCreate,
                 imageVars, frameVars>>

\* Init going from createImageViews straight to createFramebuffers
AfterImageViewsNoRenderPass(by) == "createFramebuffers"

\* what follows createImageViews: createRenderPass in Init, createFramebuffers
\* in recreateSwapChain
AfterImageViews(by) ==
  IF by = "Init" THEN "createRenderPass" ELSE "createFramebuffers"

\* what follows createFramebuffers: createCommandPool in Init, the return to
\* DrawFrame in recreateSwapChain
AfterFramebuffers(by) ==
  IF by = "Init" THEN "createCommandPool" ELSE "ready"

\* createFramebuffers giving every framebuffer the first image view
AttachmentsFirstViewOnly(views) == [i \in DOMAIN views |-> views[1]]

\* createFramebuffers: one framebuffer for each image view, in their order, with
\* that view as its one attachment
Attachments(views) == [i \in DOMAIN views |-> views[i]]

\* createImageViews: mSwapChainImages and mSwapChainImageViews get the size
\* vkGetSwapchainImagesKHR reports, and view i is made of image i
SwapChain_CreateImageViews ==
  /\ selPc = "createImageViews"
  /\ LET mSwapChainImages == SwapchainImagesOf(swapchainImages)
     IN  \E res \in PlainResults :
           IF res = VK_SUCCESS
           THEN /\ imageViewInfo' = [i \in DOMAIN mSwapChainImages |-> mSwapChainImages[i]]
                /\ selPc' = AfterImageViews(swapChainCaller)
                /\ UNCHANGED fatalIn
           ELSE /\ FatalIn("createImageViews")
                /\ UNCHANGED imageViewInfo
  /\ InitCalls("createImageViews")
  /\ UNCHANGED <<mPhysicalDevices, mSelectedDeviceIdx, mQueueIndices, mDevice,
                 windowSize, mPresentModeIdx, mSurfaceFormatIdx, mExtent,
                 createInfo, framebufferInfo, swapChainCaller, sizeAtCreate,
                 swapchainImages, framebufferAttachments, frameVars>>

Init_CreateRenderPass ==
  PlainStep("createRenderPass", "createGraphicsPipeline", TRUE)

Init_CreateGraphicsPipeline ==
  PlainStep("createGraphicsPipeline", "createFramebuffers", TRUE)

\* createFramebuffers: every framebuffer gets mExtent
SwapChain_CreateFramebuffers ==
  /\ selPc = "createFramebuffers"
  /\ \E res \in PlainResults :
       IF res = VK_SUCCESS
       THEN /\ framebufferInfo' = [width |-> mExtent.width, height |-> mExtent.height]
            /\ framebufferAttachments' = Attachments(imageViewInfo)
            /\ selPc' = AfterFramebuffers(swapChainCaller)
            /\ UNCHANGED fatalIn
       ELSE /\ FatalIn("createFramebuffers")
            /\ UNCHANGED <<framebufferInfo, framebufferAttachments>>
  /\ InitCalls("createFramebuffers")
  /\ UNCHANGED <<mPhysicalDevices, mSelectedDeviceIdx, mQueueIndices, mDevice,
                 windowSize, mPresentModeIdx, mSurfaceFormatIdx, mExtent,
                 createInfo, swapChainCaller, sizeAtCreate, swapchainImages,
                 imageViewInfo, frameVars>>

Init_CreateCommandPool ==
  PlainStep("createCommandPool", "createCommandBuffers", TRUE)

Init_CreateCommandBuffers ==
  PlainStep("createCommandBuffers", "createSyncObjects", TRUE)

\* createSyncObjects reads no result: Init returns whatever the backend did
Init_CreateSyncObjects ==
  PlainStep("createSyncObjects", "ready", FALSE)

\* the user resizes the window: the framebuffer has a new size and the
\* callback installed by initGLFW calls SetFrameBufferResized
WindowResized ==
  /\ selPc = "ready"
  /\ \E size \in WindowSizes \ {windowSize} : windowSize' = size
  /\ framebufferResized' = SetFrameBufferResized
  /\ UNCHANGED <<mPhysicalDevices, mSelectedDeviceIdx, selPc, mQueueIndices,
                 mDevice, mPresentModeIdx, mSurfaceFormatIdx, mExtent, createInfo,
                 framebufferInfo, fatalIn, swapChainCaller, sizeAtCreate,
                 initCalls, imageVars, frameVarsButLatch>>

\* a DrawFrame whose present reports a stale swapchain or that finds the latch
\* set: it clears the latch and calls recreateSwapChain, which waits for the
\* device, cleans up and calls createSwapChain
SwapChain_Recreate ==
  /\ selPc = "ready"
  /\ framebufferResized' = LatchOnRecreate(framebufferResized)
  /\ selPc' = "createSwapChain"
  /\ swapChainCaller' = "recreateSwapChain"
  /\ UNCHANGED <<mPhysicalDevices, mSelectedDeviceIdx, mQueueIndices, mDevice,
                 windowSize, mPresentModeIdx, mSurfaceFormatIdx, mExtent,
                 createInfo, framebufferInfo, fatalIn, sizeAtCreate,
                 initCalls, imageVars, frameVarsButLatch>>

\* the start of Init: mFramebufferSizeCallback is stored, then the instance
\* extensions are listed
Init_ProbeInstanceExtensions ==
  PlainStep("probeInstanceExtensions", "probeInstanceLayers", FALSE)

Init_ProbeInstanceLayers ==
  PlainStep("probeInstanceLayers", "createVulkanInstance", FALSE)

\* fatal when a validation layer is missing or vkCreateInstance fails
Init_CreateVulkanInstance ==
  PlainStep("createVulkanInstance", "setupDebugCallback", TRUE)

Init_SetupDebugCallback ==
  PlainStep("setupDebugCallback", "surfaceCreateCallback", TRUE)

\* mSurface = surfaceCreateCallback(mInstance): the callback of Engine::Impl::Init
\* ends the process when glfwCreateWindowSurface fails
Init_CreateSurface ==
  PlainStep("surfaceCreateCallback", "probePhysicalDevices", TRUE)

\* probePhysicalDevices: GetPhysicalDevices fills mPhysicalDevices; fatal when
\* the instance lists no device
Init_ProbePhysicalDevices ==
  /\ selPc = "probePhysicalDevices"
  /\ \E devices \in {<<>>} \cup {<<device>> : device \in InitDevices(windowSize)} :
       /\ mPhysicalDevices' = devices
       /\ IF devices = <<>>
          THEN FatalIn("probePhysicalDevices")
          ELSE selPc' = "selectPhysicalDevice" /\ UNCHANGED fatalIn
  /\ InitCalls("probePhysicalDevices")
  /\ UNCHANGED <<mSelectedDeviceIdx, mQueueIndices, mDevice, windowSize,
                 mPresentModeIdx, mSurfaceFormatIdx, mExtent, createInfo,
                 framebufferInfo, swapChainCaller, sizeAtCreate, imageVars, frameVars>>

\* Renderer::Impl::Init is entered while the window has its first size
InitInit ==
  /\ InitFrame
  /\ windowSize \in WindowSizes
  /\ mPhysicalDevices = <<>>
  /\ mSelectedDeviceIdx = 0
  /\ selPc = "probeInstanceExtensions"
  /\ InitSwap

NextInit ==
  \/ Init_ProbeInstanceExtensions
  \/ Init_ProbeInstanceLayers
  \/ Init_CreateVulkanInstance
  \/ Init_SetupDebugCallback
  \/ Init_CreateSurface
  \/ Init_ProbePhysicalDevices
  \/ SelectPhysicalDevice
  \/ CreateLogicalDevice
  \/ Init_QueueFamilies
  \/ SwapChain_Create
  \/ SwapChain_CreateImageViews
  \/ Init_CreateRenderPass
  \/ Init_CreateGraphicsPipeline
  \/ SwapChain_CreateFramebuffers
  \/ Init_CreateCommandPool
  \/ Init_CreateCommandBuffers
  \/ Init_CreateSyncObjects
  \/ WindowResized
  \/ SwapChain_Recreate

SpecInit == InitInit /\ [][NextInit]_vars

(***************************************************************************)
(* Claims about device selection (checked under SpecSelect)                *)
(***************************************************************************)
\* the device at 0-based index i
DeviceAt(i) == mPhysicalDevices[i + 1]

DeviceIndices == 0 .. (Len(mPhysicalDevices) - 1)

Eligible(i) ==
  /\ REQUIRED_DEVICE_EXTENSIONS \subseteq DeviceAt(i).extensions
  /\ Len(DeviceAt(i).surfaceFormats) > 0
  /\ Len(DeviceAt(i).presentModes) > 0

EligibleIndices == {i \in DeviceIndices : Eligible(i)}

\* the score as the specification words it
StatedScore(i) ==
  (IF DeviceAt(i).deviceType = DISCRETE_GPU THEN 2000 ELSE 0)
  + (IF DeviceAt(i).deviceType = INTEGRATED_GPU THEN 500 ELSE 0)
  + (IF DeviceAt(i).deviceType = CPU THEN 50 ELSE 0)
  + DeviceAt(i).maxImageDimension2D \div 100

BestIndices ==
  {i \in EligibleIndices : \A j \in EligibleIndices : StatedScore(j) <= StatedScore(i)}

\* C9: with at least one eligible device, select returns an eligible device
\* whose score is the maximum over the eligible devices, and never an
\* integrated GPU when an eligible discrete GPU has the same image-dimension
\* limit.
C9_SelectsMaxScore ==
  (selPc # "selectPhysicalDevice" /\ EligibleIndices # {}) =>
    /\ fatalIn # "selectPhysicalDevice"
    /\ mSelectedDeviceIdx \in BestIndices
    /\ \A i, j \in EligibleIndices :
         (/\ DeviceAt(i).deviceType = DISCRETE_GPU
          /\ DeviceAt(j).deviceType = INTEGRATED_GPU
          /\ DeviceAt(i).maxImageDimension2D = DeviceAt(j).maxImageDimension2D)
         => mSelectedDeviceIdx # j

C9_Witness ==
  /\ selPc = "selected"
  /\ Len(mPhysicalDevices) = 2
  /\ EligibleIndices = {0, 1}
  /\ DeviceAt(0).deviceType = DISCRETE_GPU
  /\ DeviceAt(1).deviceType = INTEGRATED_GPU
  /\ DeviceAt(0).maxImageDimension2D = DeviceAt(1).maxImageDimension2D
  /\ mSelectedDeviceIdx = 0

\* C10 (as claimed): among the eligible devices with the maximum score, select
\* returns the one enumerated first.
C10_FirstOfTiesSelected ==
  selPc = "selected" =>
    /\ mSelectedDeviceIdx \in BestIndices
    /\ \A i \in BestIndices : mSelectedDeviceIdx <= i

\* C10 (amended): among the eligible devices with the maximum score, select
\* returns the one enumerated last.
C10_LastOfTiesSelected ==
  selPc = "selected" =>
    /\ mSelectedDeviceIdx \in BestIndices
    /\ \A i \in BestIndices : mSelectedDeviceIdx >= i

C10_Witness ==
  /\ selPc = "selected"
  /\ BestIndices = {0, 1}
  /\ DeviceAt(0) # DeviceAt(1)
  /\ mSelectedDeviceIdx = 1

\* C11: select ends in the fatal path exactly when no device is eligible, and
\* so whenever every device lacks the swapchain extension; the process is then
\* terminated with no device index assigned and no logical device created.
C11_SelectFatalIffNoneEligible ==
  selPc # "selectPhysicalDevice" =>
    /\ (fatalIn = "selectPhysicalDevice") <=> (EligibleIndices = {})
    /\ (\A i \in DeviceIndices : "VK_KHR_swapchain" \notin DeviceAt(i).extensions)
         => fatalIn = "selectPhysicalDevice"
    /\ fatalIn = "selectPhysicalDevice" =>
         /\ selPc = "terminated"
         /\ mSelectedDeviceIdx = 0
         /\ mDevice = VK_NULL_HANDLE
         /\ mQueueIndices = [Graphics |-> <<>>, Present |-> <<>>]
    /\ mDevice # VK_NULL_HANDLE => EligibleIndices # {}

SelectedDevice == mPhysicalDevices[mSelectedDeviceIdx + 1]

C11_Witness ==
  /\ fatalIn = "selectPhysicalDevice"
  /\ selPc = "terminated"
  /\ Len(mPhysicalDevices) = 2
  /\ \A i \in DeviceIndices : "VK_KHR_swapchain" \notin DeviceAt(i).extensions
  /\ \A i \in DeviceIndices : Len(DeviceAt(i).surfaceFormats) > 0

\* the device at 0-based index i has a family with the capability
HasFamilyWith(i, c) ==
  \E f \in DOMAIN DeviceAt(i).queueFamiliesCapabilities :
    DeviceAt(i).queueFamiliesCapabilities[f][c]

\* createLogicalDevice ended the process because it found no family
FatalForMissingFamily ==
  /\ fatalIn = "createLogicalDevice"
  /\ mQueueIndices.Graphics = <<>> \/ mQueueIndices.Present = <<>>

\* C30 (as claimed): the device select returns has a family with graphics and
\* a family with present, and createLogicalDevice ends the process for a
\* missing family only when no eligible device has both.
C30_SelectedHasQueueFamilies ==
  /\ (selPc # "selectPhysicalDevice" /\ fatalIn # "selectPhysicalDevice") =>
       /\ HasFamilyWith(mSelectedDeviceIdx, "Graphics")
       /\ HasFamilyWith(mSelectedDeviceIdx, "Present")
  /\ FatalForMissingFamily =>
       ~\E i \in EligibleIndices :
          HasFamilyWith(i, "Graphics") /\ HasFamilyWith(i, "Present")

(***************************************************************************)
(* Claims about Init and createSwapChain (checked under SpecInit)          *)
(***************************************************************************)
\* the places where the selected device lists the preferred surface format
PreferredFormatPlaces ==
  {i \in DOMAIN SelectedDevice.surfaceFormats :
     SelectedDevice.surfaceFormats[i] =
       [format |-> "VK_FORMAT_B8G8R8A8_SRGB", colorSpace |-> "VK_COLOR_SPACE_SRGB_NONLINEAR_KHR"]}

\* C12: for every format list, in every ordering, the index createSwapChain
\* gets from chooseSurfaceFormat is that of the first entry equal to
\* (B8G8R8A8 sRGB, sRGB-nonlinear) when there is one, and 0 when there is none.
C12_FirstPreferredFormatOrZero ==
  mSurfaceFormatIdx # <<>> =>
    /\ PreferredFormatPlaces # {} =>
         /\ (mSurfaceFormatIdx[1] + 1) \in PreferredFormatPlaces
         /\ \A i \in PreferredFormatPlaces : mSurfaceFormatIdx[1] + 1 <= i
    /\ PreferredFormatPlaces = {} => mSurfaceFormatIdx[1] = 0

C12_Witness ==
  /\ mSurfaceFormatIdx = <<1>>
  /\ Len(SelectedDevice.surfaceFormats) = 2
  /\ SelectedDevice.surfaceFormats[1].format = "VK_FORMAT_B8G8R8A8_SRGB"
  /\ PreferredFormatPlaces = {2}

\* the place of a present mode in the list of the selected device (0: absent)
PlaceOfMode(mode) ==
  IF \E i \in DOMAIN SelectedDevice.presentModes : SelectedDevice.presentModes[i] = mode
  THEN CHOOSE i \in DOMAIN SelectedDevice.presentModes : SelectedDevice.presentModes[i] = mode
  ELSE 0

\* C13: for every present-mode list, the index createSwapChain gets from
\* choosePresentMode is that of the mailbox entry whenever the list has one,
\* before or after FIFO, and otherwise that of the FIFO entry.
C13_MailboxElseFifo ==
  mPresentModeIdx # <<>> =>
    /\ PlaceOfMode("VK_PRESENT_MODE_MAILBOX_KHR") # 0 =>
         mPresentModeIdx[1] + 1 = PlaceOfMode("VK_PRESENT_MODE_MAILBOX_KHR")
    /\ (PlaceOfMode("VK_PRESENT_MODE_MAILBOX_KHR") = 0
          /\ PlaceOfMode("VK_PRESENT_MODE_FIFO_KHR") # 0) =>
         mPresentModeIdx[1] + 1 = PlaceOfMode("VK_PRESENT_MODE_FIFO_KHR")

C13_Witness ==
  /\ mPresentModeIdx = <<2>>
  /\ PlaceOfMode("VK_PRESENT_MODE_FIFO_KHR") = 1
  /\ PlaceOfMode("VK_PRESENT_MODE_MAILBOX_KHR") = 3
  /\ createInfo # <<>>
  /\ createInfo.presentMode = "VK_PRESENT_MODE_MAILBOX_KHR"

\* a value brought into [lo, hi]
Into(v, lo, hi) == IF v < lo THEN lo ELSE IF v > hi THEN hi ELSE v

\* the size the window had at the latest createSwapChain, brought component by
\* component into [minImageExtent, maxImageExtent] of the selected device
ClampedSize ==
  LET caps == SelectedDevice.surfaceCapabilities
      size == sizeAtCreate.latest
  IN  [width  |-> Into(size.width, caps.minImageExtent.width, caps.maxImageExtent.width),
       height |-> Into(size.height, caps.minImageExtent.height, caps.maxImageExtent.height)]

UndefinedExtent == [width |-> 2147483647, height |-> 2147483647]

\* C14 (as claimed): chooseExtent returns currentExtent unchanged whenever
\* currentExtent, both components considered, is not the undefined value, and
\* otherwise the framebuffer size clamped into [minImageExtent, maxImageExtent].
C14_CurrentExtentUnlessUndefined ==
  mExtent # <<>> =>
    IF SelectedDevice.surfaceCapabilities.currentExtent # UndefinedExtent
    THEN mExtent = SelectedDevice.surfaceCapabilities.currentExtent
    ELSE mExtent = ClampedSize

\* C14 (amended): chooseExtent returns currentExtent unchanged whenever the
\* width of currentExtent is not the largest 32-bit value, whatever its height,
\* and otherwise the framebuffer size clamped component by component into
\* [minImageExtent, maxImageExtent], whatever the height of currentExtent.
C14_CurrentExtentUnlessWidthUndefined ==
  mExtent # <<>> =>
    IF SelectedDevice.surfaceCapabilities.currentExtent.width # UndefinedExtent.width
    THEN mExtent = SelectedDevice.surfaceCapabilities.currentExtent
    ELSE mExtent = ClampedSize

C14_Witness ==
  /\ mExtent # <<>>
  /\ SelectedDevice.surfaceCapabilities.currentExtent = [width |-> 2147483647, height |-> 1200]
  /\ sizeAtCreate.latest = [width |-> 200, height |-> 1200]
  /\ mExtent = [width |-> 320, height |-> 1080]

\* C15 (as claimed): when recreateSwapChain has rebuilt the swapchain and the
\* framebuffers after the window changed its size, the extent of the new
\* swapchain and the size of the new framebuffers are the new window size,
\* clamped into [minImageExtent, maxImageExtent].
C15_ExtentFollowsWindow ==
  (/\ selPc = "ready"
   /\ swapChainCaller = "recreateSwapChain"
   /\ sizeAtCreate.previous # sizeAtCreate.latest) =>
    /\ createInfo.imageExtent = ClampedSize
    /\ framebufferInfo = ClampedSize

\* C19: Init goes past its test of the queue families only with equal graphics
\* and present indices and is terminated there otherwise, so every swapchain
\* created, by Init or by recreateSwapChain, has exclusive sharing mode.
C19_EqualFamiliesExclusiveSharing ==
  /\ selPc \in {"createSwapChain", "createFramebuffers", "ready"} =>
       /\ mQueueIndices.Graphics # <<>>
       /\ mQueueIndices.Graphics = mQueueIndices.Present
  /\ (mDevice # VK_NULL_HANDLE /\ mQueueIndices.Graphics # mQueueIndices.Present) =>
       /\ selPc \in {"queueFamilies", "terminated"}
       /\ selPc = "terminated" => fatalIn = "Init"
       /\ createInfo = <<>>
  /\ createInfo # <<>> => createInfo.imageSharingMode = "VK_SHARING_MODE_EXCLUSIVE"

C19_Witness ==
  /\ selPc = "terminated"
  /\ fatalIn = "Init"
  /\ mQueueIndices = [Graphics |-> <<0>>, Present |-> <<1>>]
  /\ ~SelectedDevice.queueFamiliesCapabilities[1]["Graphics"]

\* the lowest 0-based index of a family whose own flag c is set, <<>> if none
LowestFamilyWith(caps, c) ==
  LET having == {i \in DOMAIN caps : caps[i][c]}
  IN  IF having = {} THEN <<>>
      ELSE <<(CHOOSE i \in having : \A j \in having : i <= j) - 1>>

\* createLogicalDevice has returned or has ended the process
LogicalDeviceTried == "createLogicalDevice" \in Range(initCalls)

\* C25 (as claimed): the graphics index and the present index that
\* createLogicalDevice gets from GetQueueFamilyIdxWithCapability are each the
\* lowest index of a family of the selected device that has that capability
\* itself, and none when no family has it.
C25_LowestFamilyWithCapability ==
  LogicalDeviceTried =>
    LET caps == SelectedDevice.queueFamiliesCapabilities IN
      /\ mQueueIndices.Graphics = LowestFamilyWith(caps, "Graphics")
      /\ mQueueIndices.Graphics # <<>> =>
           \/ mQueueIndices.Present = LowestFamilyWith(caps, "Present")
           \/ mQueueIndices.Present = <<>> /\ fatalIn = "createLogicalDevice"

\* C26: the image count createSwapChain asks for is one more than the minimum
\* of the surface when the surface sets no maximum (maxImageCount 0), and
\* otherwise the smaller of that and the maximum; it is never below the minimum
\* and never above a non-zero maximum.
C26_ImageCountWithinLimits ==
  createInfo # <<>> =>
    LET lo == SelectedDevice.surfaceCapabilities.minImageCount
        hi == SelectedDevice.surfaceCapabilities.maxImageCount
        n == createInfo.minImageCount
    IN  /\ hi = 0 => n = lo + 1
        /\ hi # 0 => (n = lo + 1 \/ n = hi) /\ n <= lo + 1 /\ n <= hi
        /\ n >= lo

C26_Witness ==
  /\ createInfo # <<>>
  /\ SelectedDevice.surfaceCapabilities.minImageCount = 3
  /\ SelectedDevice.surfaceCapabilities.maxImageCount = 3
  /\ createInfo.minImageCount = 3
  /\ swapChainCaller = "recreateSwapChain"

\* the members each function called by Init assigns
Writes(function) ==
  CASE function = "probeInstanceExtensions" -> {"mAvailableInstanceExtensions"}
    [] function = "probeInstanceLayers" -> {"mAvailableInstanceLayers"}
    [] function = "createVulkanInstance" -> {"mInstance"}
    [] function = "setupDebugCallback" -> {"mDebugMessenger"}
    [] function = "surfaceCreateCallback" -> {"mSurface"}
    [] function = "probePhysicalDevices" -> {"mPhysicalDevices"}
    [] function = "selectPhysicalDevice" -> {"mSelectedDeviceIdx"}
    [] function = "createLogicalDevice" -> {"mQueueIndices", "mDevice"}
    [] function = "vkGetDeviceQueue" -> {"mQueueHandles"}
    [] function = "createSwapChain" ->
         {"mPresentModeIdx", "mSurfaceFormatIdx", "mExtent", "mSwapChain"}
    [] function = "createImageViews" -> {"mSwapChainImages", "mSwapChainImageViews"}
    [] function = "createRenderPass" -> {"mRenderPass"}
    [] function = "createGraphicsPipeline" -> {"mPipelineLayout", "mPipeline"}
    [] function = "createFramebuffers" -> {"mSwapChainFramebuffers"}
    [] function = "createCommandPool" -> {"mCommandPool"}
    [] function = "createCommandBuffers" -> {"mCommandBuffers"}
    [] function = "createSyncObjects" ->
         {"mImageAvailableSems", "mRenderFinishedSems", "mInFlightFences"}

\* the members each function reads that it has not assigned itself
Reads(function) ==
  CASE function = "probeInstanceExtensions" -> {}
    [] function = "probeInstanceLayers" -> {}
    [] function = "createVulkanInstance" -> {"mAvailableInstanceLayers"}
    [] function = "setupDebugCallback" -> {"mInstance"}
    [] function = "surfaceCreateCallback" -> {"mInstance"}
    [] function = "probePhysicalDevices" -> {"mInstance", "mSurface"}
    [] function = "selectPhysicalDevice" -> {"mPhysicalDevices"}
    [] function = "createLogicalDevice" -> {"mPhysicalDevices", "mSelectedDeviceIdx"}
    [] function = "vkGetDeviceQueue" -> {"mDevice", "mQueueIndices"}
    [] function = "createSwapChain" ->
         {"mFramebufferSizeCallback", "mPhysicalDevices", "mSelectedDeviceIdx",
          "mSurface", "mQueueIndices", "mDevice"}
    [] function = "createImageViews" ->
         {"mDevice", "mSwapChain", "mPhysicalDevices", "mSelectedDeviceIdx",
          "mSurfaceFormatIdx"}
    [] function = "createRenderPass" ->
         {"mPhysicalDevices", "mSelectedDeviceIdx", "mSurfaceFormatIdx", "mDevice"}
    [] function = "createGraphicsPipeline" -> {"mDevice", "mExtent", "mRenderPass"}
    [] function = "createFramebuffers" ->
         {"mSwapChainImageViews", "mRenderPass", "mExtent", "mDevice"}
    [] function = "createCommandPool" -> {"mQueueIndices", "mDevice"}
    [] function = "createCommandBuffers" -> {"mCommandPool", "mDevice"}
    [] function = "createSyncObjects" -> {"mDevice"}

\* set when Init is entered: the callback is stored by the first statement of Init
SetOnEntry == {"mFramebufferSizeCallback"}

\* the members assigned by the first n calls of Init
WrittenBy(n) == SetOnEntry \cup UNION {Writes(initCalls[k]) : k \in 1 .. n}

\* the order of creation the claim gives
ClaimedInitOrder ==
  <<"createVulkanInstance", "surfaceCreateCallback", "probePhysicalDevices",
    "selectPhysicalDevice", "createLogicalDevice", "vkGetDeviceQueue",
    "createSwapChain", "createImageViews", "createRenderPass",
    "createGraphicsPipeline", "createFramebuffers", "createCommandPool",
    "createCommandBuffers", "createSyncObjects">>

IsClaimedInitCall(function) == function \in Range(ClaimedInitOrder)

\* DrawFrame has been entered: it runs in the position after Init, and the
\* swapchain calls that recreateSwapChain makes are part of it
InDrawFrame == selPc = "ready" \/ swapChainCaller = "recreateSwapChain"

RecordCommandBuffer ==
  [renderArea |-> [offset |-> <<0, 0>>, extent |-> mExtent],
   viewport |-> [x |-> 0, y |-> 0, width |-> mExtent.width, height |-> mExtent.height],
   scissor |-> [offset |-> <<0, 0>>, extent |-> mExtent]]

C29_PresentModeIdxInBounds ==
  mPresentModeIdx # <<>> =>
    /\ SelectedDevice.presentModes # <<>>
    /\ mPresentModeIdx[1] < Len(SelectedDevice.presentModes)
    /\ createInfo # <<>> => createInfo.presentMode \in Range(SelectedDevice.presentModes)

====
